---- MODULE Spec2Model ----
(***************************************************************************)
(* The retry-aware job runner of package scheduler (scheduler.go): one     *)
(* Worker running cycles (runCycle) against a Repository and a Dispatcher  *)
(* that are ports, so their answers are inputs of the model.               *)
(*                                                                         *)
(* Time.  A time.Time is modelled by its instant, an integer number of     *)
(* time units since Go's zero time (0 is the zero time.Time, the one       *)
(* IsZero reports).  A time.Duration is an int64 count of nanoseconds; the *)
(* model counts durations in units of 2^34 ns (about 17 s), so that the    *)
(* int64 range [-2^63, 2^63) ns is exactly [-2^29, 2^29) units and the     *)
(* wrap-around of Go's int64 multiplication is computed exactly for every  *)
(* duration that is a whole number of units.                               *)
(***************************************************************************)
EXTENDS Integers, Sequences, FiniteSets, TLC

VARIABLES
    worker,       \* the Worker's fields (set by NewWorker, never changed)
    clock,        \* what Clock.Now() returns at this moment
    ctxErr,       \* ctx.Err() != nil: the context is cancelled
    pc,           \* where runCycle stands: "idle" or the call it waits in
    now,          \* runCycle's local now
    pendingJobs,  \* runCycle's local pendingJobs
    idx,          \* position of the range loop in pendingJobs (1-based)
    exec,         \* executeJob's locals
    trace,        \* history: the collaborator calls of the current cycle
    log,          \* history: the events logged since the current cycle began
    run,          \* Run: "off" (not called), "running" or "returned"
    tick,         \* Run's ticker.C holds a tick (a channel with room for one)
    runPrev,      \* history: what the cycle Run ran before this one came to
    config,       \* the Config NewWorker was called with
    newErr,       \* the error NewWorker returned
    store,        \* the jobs a storing Repository holds
    unsaved,      \* history: the last update ApplyAttemptResult failed to store
    peer,         \* a second Worker on the same Repository: its cycle
    chat,         \* llm: a call of Factory.Chat, its locals and its history
    ledger        \* history: the jobs first stored, the Attempt calls per job

vars == <<worker, clock, ctxErr, pc, now, pendingJobs, idx, exec, trace, log,
          run, tick, runPrev, config, newErr, store, unsaved, peer, chat, ledger>>
\* what the steps of a cycle leave alone
others == <<run, tick, runPrev, config, newErr, store, unsaved, peer, chat, ledger>>
\* what Run and NewWorker leave alone
beyond == <<store, unsaved, peer, chat, ledger>>

----------------------------------------------------------------------------
(* Bounds of the model.                                                    *)

\* longest list PendingJobs returns under Spec
MaxBatch == 2
\* latest small instant of the clock and of a job's time fields
MaxTime == 3

(* Program constants.                                                      *)
maxBackoffShift == 20

\* half the int64 range of a Duration, in time units of 2^34 ns
Int64Half == 2^29

----------------------------------------------------------------------------
(* time.Time and time.Duration                                             *)

\* Time.Before
Before(t, u) == t < u
\* Time.UTC sets the Location to UTC and keeps the instant
UTC(t) == t
\* Time.IsZero
IsZero(t) == t = 0
\* Time.Add: exact, a Time's range is far wider than a Duration's
Add(t, d) == t + d
\* an int64 result, wrapped around as Go's two's-complement arithmetic does
WrapInt64(x) == ((x + Int64Half) % (2 * Int64Half)) - Int64Half
\* Duration * Duration
MulDuration(a, b) == WrapInt64(a * b)

\* a nil *time.Time, and a pointer to t
Nil == << >>
Ptr(t) == <<t>>

----------------------------------------------------------------------------
(* NewWorker                                                               *)

\* the error NewWorker returns: errInvalidConfig wrapped with a message
ConfigError(msg) == [ok |-> FALSE, err |-> "invalid scheduler config", msg |-> msg]

\* mutant: an interval of zero is let through
NewWorkerAcceptsZeroInterval(cfg) ==
    IF ~cfg.Repository \/ ~cfg.Dispatcher \/ ~cfg.Logger
    THEN ConfigError("repository, dispatcher, and logger are required")
    ELSE IF cfg.Interval < 0
    THEN ConfigError("interval must be positive")
    ELSE IF cfg.MaxRetries <= 0
    THEN ConfigError("max retries must be positive")
    ELSE IF cfg.SuccessStatus = "" \/ cfg.FailureStatus = ""
    THEN ConfigError("success and failure statuses are required")
    ELSE [ok |-> TRUE,
          worker |-> [interval      |-> cfg.Interval,
                      maxRetries    |-> cfg.MaxRetries,
                      successStatus |-> cfg.SuccessStatus,
                      failureStatus |-> cfg.FailureStatus,
                      clock         |-> IF cfg.Clock = "nil" THEN "systemClock"
                                                             ELSE cfg.Clock]]

\* mutant: the statuses are not checked
NewWorkerAcceptsEmptyStatus(cfg) ==
    IF ~cfg.Repository \/ ~cfg.Dispatcher \/ ~cfg.Logger
    THEN ConfigError("repository, dispatcher, and logger are required")
    ELSE IF cfg.Interval <= 0
    THEN ConfigError("interval must be positive")
    ELSE IF cfg.MaxRetries <= 0
    THEN ConfigError("max retries must be positive")
    ELSE [ok |-> TRUE,
          worker |-> [interval      |-> cfg.Interval,
                      maxRetries    |-> cfg.MaxRetries,
                      successStatus |-> cfg.SuccessStatus,
                      failureStatus |-> cfg.FailureStatus,
                      clock         |-> IF cfg.Clock = "nil" THEN "systemClock"
                                                             ELSE cfg.Clock]]

\* mutant: the two numeric checks report the same message
NewWorkerSharedMessage(cfg) ==
    IF ~cfg.Repository \/ ~cfg.Dispatcher \/ ~cfg.Logger
    THEN ConfigError("repository, dispatcher, and logger are required")
    ELSE IF cfg.Interval <= 0
    THEN ConfigError("interval must be positive")
    ELSE IF cfg.MaxRetries <= 0
    THEN ConfigError("interval must be positive")
    ELSE IF cfg.SuccessStatus = "" \/ cfg.FailureStatus = ""
    THEN ConfigError("success and failure statuses are required")
    ELSE [ok |-> TRUE,
          worker |-> [interval      |-> cfg.Interval,
                      maxRetries    |-> cfg.MaxRetries,
                      successStatus |-> cfg.SuccessStatus,
                      failureStatus |-> cfg.FailureStatus,
                      clock         |-> IF cfg.Clock = "nil" THEN "systemClock"
                                                             ELSE cfg.Clock]]

\* NewWorker: the four checks in the code's order, then the Worker, whose
\* clock is the system clock when the Config names none
NewWorker(cfg) ==
    IF ~cfg.Repository \/ ~cfg.Dispatcher \/ ~cfg.Logger
    THEN ConfigError("repository, dispatcher, and logger are required")
    ELSE IF cfg.Interval <= 0
    THEN ConfigError("interval must be positive")
    ELSE IF cfg.MaxRetries <= 0
    THEN ConfigError("max retries must be positive")
    ELSE IF cfg.SuccessStatus = "" \/ cfg.FailureStatus = ""
    THEN ConfigError("success and failure statuses are required")
    ELSE [ok |-> TRUE,
          worker |-> [interval      |-> cfg.Interval,
                      maxRetries    |-> cfg.MaxRetries,
                      successStatus |-> cfg.SuccessStatus,
                      failureStatus |-> cfg.FailureStatus,
                      clock         |-> IF cfg.Clock = "nil" THEN "systemClock"
                                                             ELSE cfg.Clock]]

----------------------------------------------------------------------------
(* shouldAttempt                                                           *)

\* mutant: the shift is not capped
BackoffShiftUncapped(job) == job.RetryCount

\* shift := job.RetryCount, capped at maxBackoffShift
BackoffShift(job) ==
    IF job.RetryCount > maxBackoffShift THEN maxBackoffShift ELSE job.RetryCount

\* backoff := worker.interval * time.Duration(1<<uint(shift))
Backoff(w, job) == MulDuration(w.interval, 2^BackoffShift(job))

\* mutant: the ScheduledFor check is missing
shouldAttemptIgnoresSchedule(w, job, n) ==
    IF job.RetryCount <= 0 \/ IsZero(job.LastAttemptedAt)
    THEN TRUE
    ELSE LET nextAttempt == Add(UTC(job.LastAttemptedAt), Backoff(w, job))
         IN  ~Before(n, nextAttempt)

\* mutant: && for ||, the first attempt needs RetryCount 0 and no LastAttemptedAt
shouldAttemptNeedsBoth(w, job, n) ==
    IF job.ScheduledFor # Nil /\ Before(n, UTC(job.ScheduledFor[1]))
    THEN FALSE
    ELSE IF job.RetryCount <= 0 /\ IsZero(job.LastAttemptedAt)
    THEN TRUE
    ELSE LET nextAttempt == Add(UTC(job.LastAttemptedAt), Backoff(w, job))
         IN  ~Before(n, nextAttempt)

\* mutant: the backoff test the wrong way round, eligible until nextAttempt
shouldAttemptUntilNext(w, job, n) ==
    IF job.ScheduledFor # Nil /\ Before(n, UTC(job.ScheduledFor[1]))
    THEN FALSE
    ELSE IF job.RetryCount <= 0 \/ IsZero(job.LastAttemptedAt)
    THEN TRUE
    ELSE LET nextAttempt == Add(UTC(job.LastAttemptedAt), Backoff(w, job))
         IN  Before(n, nextAttempt)

\* mutant: a job with an attempt on record is not attempted again
shouldAttemptFirstOnly(w, job, n) ==
    IF job.ScheduledFor # Nil /\ Before(n, UTC(job.ScheduledFor[1]))
    THEN FALSE
    ELSE job.RetryCount <= 0 \/ IsZero(job.LastAttemptedAt)

\* mutant: a job that has used up maxRetries is not attempted
shouldAttemptBelowMax(w, job, n) ==
    IF job.RetryCount >= w.maxRetries
    THEN FALSE
    ELSE IF job.ScheduledFor # Nil /\ Before(n, UTC(job.ScheduledFor[1]))
    THEN FALSE
    ELSE IF job.RetryCount <= 0 \/ IsZero(job.LastAttemptedAt)
    THEN TRUE
    ELSE LET nextAttempt == Add(UTC(job.LastAttemptedAt), Backoff(w, job))
         IN  ~Before(n, nextAttempt)

shouldAttempt(w, job, n) ==
    IF job.ScheduledFor # Nil /\ Before(n, UTC(job.ScheduledFor[1]))
    THEN FALSE
    ELSE IF job.RetryCount <= 0 \/ IsZero(job.LastAttemptedAt)
    THEN TRUE
    ELSE LET nextAttempt == Add(UTC(job.LastAttemptedAt), Backoff(w, job))
         IN  ~Before(n, nextAttempt)

----------------------------------------------------------------------------
(* executeJob: the status and the AttemptUpdate built from a dispatch      *)

\* mutant: a dispatch error wins over the status the dispatcher supplied
ResolveStatusErrorFirst(w, result, dispatchErr) ==
    IF dispatchErr # "" THEN w.failureStatus
    ELSE IF result.Status = "" THEN w.successStatus
    ELSE result.Status

ResolveStatus(w, result, dispatchErr) ==
    LET status == IF result.Status = ""
                  THEN IF dispatchErr # "" THEN w.failureStatus
                                           ELSE w.successStatus
                  ELSE result.Status
    IN  IF status = "" THEN w.failureStatus ELSE status

\* mutant: RetryCount counts the failed attempts only
BuildUpdateCountsFailures(w, job, attemptedAt, result, dispatchErr) ==
    [Status            |-> ResolveStatus(w, result, dispatchErr),
     ProviderMessageID |-> result.ProviderMessageID,
     RetryCount        |-> IF dispatchErr # "" THEN job.RetryCount + 1
                                               ELSE job.RetryCount,
     LastAttemptedAt   |-> attemptedAt]

\* mutant: a failed attempt's provider message ID is not kept
BuildUpdateDropsProviderOnError(w, job, attemptedAt, result, dispatchErr) ==
    [Status            |-> ResolveStatus(w, result, dispatchErr),
     ProviderMessageID |-> IF dispatchErr # "" THEN ""
                                               ELSE result.ProviderMessageID,
     RetryCount        |-> job.RetryCount + 1,
     LastAttemptedAt   |-> attemptedAt]

\* mutant: the update carries the job's RetryCount as it was
BuildUpdateKeepsRetryCount(w, job, attemptedAt, result, dispatchErr) ==
    [Status            |-> ResolveStatus(w, result, dispatchErr),
     ProviderMessageID |-> result.ProviderMessageID,
     RetryCount        |-> job.RetryCount,
     LastAttemptedAt   |-> attemptedAt]

BuildUpdate(w, job, attemptedAt, result, dispatchErr) ==
    [Status            |-> ResolveStatus(w, result, dispatchErr),
     ProviderMessageID |-> result.ProviderMessageID,
     RetryCount        |-> job.RetryCount + 1,
     LastAttemptedAt   |-> attemptedAt]

----------------------------------------------------------------------------
(* Zero values, and the inputs of the model                                *)

\* a Job without its Payload, which the Worker passes along and never reads
ZeroJob == [ID |-> "", ScheduledFor |-> Nil, RetryCount |-> 0, LastAttemptedAt |-> 0]
ZeroResult == [Status |-> "", ProviderMessageID |-> ""]
ZeroUpdate == [Status |-> "", ProviderMessageID |-> "", RetryCount |-> 0,
               LastAttemptedAt |-> 0]
\* executeJob's locals before it runs; an error is "" (nil) or its message
NoExec == [job |-> ZeroJob, attemptedAt |-> 0, result |-> ZeroResult,
           dispatchErr |-> "", update |-> ZeroUpdate]

\* no stored jobs, no update lost, and a second Worker between two cycles
NoStore == << >>
NoUnsaved == [job |-> ZeroJob, update |-> ZeroUpdate]
IdlePeer == [pc |-> "idle", now |-> 0, pendingJobs |-> << >>, idx |-> 1,
             exec |-> NoExec]

\* no call of Factory.Chat
NoReturn == [err |-> "", text |-> << >>, attempts |-> 0, wraps |-> ""]
NoChat == [pc |-> "off", configured |-> FALSE,
           policy |-> [MaxAttempts |-> 0, InitialBackoff |-> 0, MaxBackoff |-> 0,
                       BackoffMultiplier |-> <<0, 1>>],
           attempts |-> 0, attempt |-> 0, delay |-> 0, calls |-> 0,
           last |-> [response |-> << >>, err |-> ""], lastError |-> "",
           sleeps |-> << >>, sleepErr |-> "", ret |-> NoReturn]

\* a nil *Worker, and a nil error of NewWorker
NoWorker == [interval |-> 0, maxRetries |-> 0, successStatus |-> "",
             failureStatus |-> "", clock |-> ""]
NoError == [err |-> "", msg |-> ""]

\* the Configs handed to NewWorker: it accepts some and refuses others
ConfigsWith(intervals) ==
    [Repository : {TRUE}, Dispatcher : {TRUE}, Logger : BOOLEAN,
     Interval : {0} \cup intervals, MaxRetries : {0, 5},
     SuccessStatus : {"", "sent"}, FailureStatus : {"failed", "sent"},
     Clock : {"fixedClock"}]

\* what Dispatcher.Attempt can return: a DispatchResult and an error
DispatchResults == [Status : {"", "queued"}, ProviderMessageID : {"", "provider-1"}]
DispatchErrors == {"", "send failed"}

\* the lists of at most n jobs of S
BatchesOf(S, n) == UNION {[1..k -> S] : k \in 0..n}

\* Jobs as a Repository that records the Worker's updates holds them: never
\* attempted (RetryCount 0, zero LastAttemptedAt) or attempted once at instant 1
\* (RetryCount 1), due at once or only at MaxTime.
JobIDs == {"job-a", "job-b"}
\* no job first stored, no Attempt call counted
NoLedger == [first |-> << >>, attempts |-> [id \in JobIDs |-> 0]]
StoredJobs ==
    {j \in [ID : JobIDs, ScheduledFor : {Nil, Ptr(MaxTime)},
            RetryCount : {0, 1}, LastAttemptedAt : {0, 1}] :
        (j.RetryCount = 0) <=> (j.LastAttemptedAt = 0)}
Intervals == {1}
ClockTimes == 1..MaxTime

\* Every combination of a job's fields, for the eligibility decision: a small
\* and a capped RetryCount, a zero and a set LastAttemptedAt, with the
\* intervals 1 and 2 and the smallest interval whose backoff at the shift cap
\* leaves the int64 range (2^43 ns, about 2 h 26 min).
OverflowInterval == Int64Half \div 2^maxBackoffShift
WideIntervals == {1, 2, OverflowInterval}
RetryCounts == {0, 1, 2, maxBackoffShift, maxBackoffShift + 1}
AnyJobs ==
    [ID : {"job-a"}, ScheduledFor : {Nil} \cup {Ptr(t) : t \in 1..MaxTime},
     RetryCount : RetryCounts, LastAttemptedAt : 0..2]
WideClockTimes ==
    (1..(2 * MaxTime)) \cup {2^maxBackoffShift + d : d \in 0..2}

----------------------------------------------------------------------------
(* History                                                                 *)

Event(op, pos, job, failed) == [op |-> op, pos |-> pos, job |-> job, failed |-> failed]
LogEvent(msg, jobID) == [msg |-> msg, job_id |-> jobID]

----------------------------------------------------------------------------
(* Init: a Worker that NewWorker returned, no cycle run yet                *)

InitKept(configs, times, stores, kept) ==
    /\ \E cfg \in configs :
          /\ NewWorker(cfg).ok
          /\ worker = NewWorker(cfg).worker
          /\ config = cfg
    /\ newErr = NoError
    /\ run = "off"
    /\ tick = FALSE
    /\ runPrev = "none"
    /\ store \in stores
    /\ unsaved = NoUnsaved
    /\ peer = IdlePeer
    /\ chat = NoChat
    /\ ledger = IF kept THEN [NoLedger EXCEPT !.first = store] ELSE NoLedger
    /\ clock \in times
    /\ ctxErr = FALSE
    /\ pc = "idle"
    /\ now = 0
    /\ pendingJobs = << >>
    /\ idx = 1
    /\ exec = NoExec
    /\ trace = << >>
    /\ log = << >>

\* a Worker on a storing Repository, no Attempt call counted
InitStored(configs, times, stores) == InitKept(configs, times, stores, FALSE)

\* a Worker whose Repository is left open: any list may come back
InitWith(configs, times) == InitStored(configs, times, {NoStore})

----------------------------------------------------------------------------
(* runCycle, split at the calls of its collaborators                       *)

\* mutant: runCycle does not look at the context when it starts
RunCycleEntryUnchecked ==
    /\ pc = "idle"
    /\ pendingJobs' = << >>
    /\ idx' = 1
    /\ exec' = NoExec
    /\ log' = << >>
    /\ now' = clock
    /\ pc' = "PendingJobs"
    /\ trace' = <<Event("PendingJobs", 0, ZeroJob, FALSE)>>
    /\ UNCHANGED <<worker, clock, ctxErr>>

\* runCycle up to its first call: it returns at once under a cancelled
\* context; otherwise it reads the clock and calls Repository.PendingJobs
RunCycleEntry ==
    /\ pc = "idle"
    /\ pendingJobs' = << >>
    /\ idx' = 1
    /\ exec' = NoExec
    /\ log' = << >>
    /\ IF ctxErr
       THEN /\ pc' = "idle"
            /\ now' = 0
            /\ trace' = << >>
       ELSE /\ now' = clock
            /\ pc' = "PendingJobs"
            /\ trace' = <<Event("PendingJobs", 0, ZeroJob, FALSE)>>
    /\ UNCHANGED <<worker, clock, ctxErr>>

\* RunOnce: one cycle, called while Run is not running
RunCycleEnter ==
    /\ run = "off"
    /\ RunCycleEntry
    /\ UNCHANGED others

\* mutant: a failed fetch is retried within the cycle
PendingJobsFailRetries ==
    /\ pc = "PendingJobs"
    /\ trace' = trace \o <<Event("PendingJobsReturn", 0, ZeroJob, TRUE),
                           Event("PendingJobs", 0, ZeroJob, FALSE)>>
    /\ log' = Append(log, LogEvent("scheduler_pending_jobs_error", ""))
    /\ UNCHANGED <<worker, clock, ctxErr, pc, now, pendingJobs, idx, exec>>
    /\ UNCHANGED others

\* PendingJobs returns an error: log it and return
PendingJobsFail ==
    /\ pc = "PendingJobs"
    /\ trace' = Append(trace, Event("PendingJobsReturn", 0, ZeroJob, TRUE))
    /\ log' = Append(log, LogEvent("scheduler_pending_jobs_error", ""))
    /\ pc' = "idle"
    /\ UNCHANGED <<worker, clock, ctxErr, now, pendingJobs, idx, exec>>
    /\ UNCHANGED others

\* PendingJobs returns a list of jobs: the range loop starts
PendingJobsReturnFrom(batches) ==
    /\ pc = "PendingJobs"
    /\ \E jobs \in batches : pendingJobs' = jobs
    /\ idx' = 1
    /\ trace' = Append(trace, Event("PendingJobsReturn", 0, ZeroJob, FALSE))
    /\ pc' = "loop"
    /\ UNCHANGED <<worker, clock, ctxErr, now, exec, log>>
    /\ UNCHANGED others

\* mutant: the loop does not move on, the same entry is taken again
RangeNextStays(i) == i

\* the range loop moves to the next entry of the list
RangeNext(i) == i + 1

\* the range loop is over
LoopDone ==
    /\ pc = "loop"
    /\ idx > Len(pendingJobs)
    /\ pc' = "idle"
    /\ UNCHANGED <<worker, clock, ctxErr, now, pendingJobs, idx, exec, trace, log>>
    /\ UNCHANGED others

\* the context is cancelled before the next job: return
LoopCancelled ==
    /\ pc = "loop"
    /\ idx <= Len(pendingJobs)
    /\ ctxErr
    /\ pc' = "idle"
    /\ UNCHANGED <<worker, clock, ctxErr, now, pendingJobs, idx, exec, trace, log>>
    /\ UNCHANGED others

\* the next job is not to be attempted: continue
LoopSkip ==
    /\ pc = "loop"
    /\ idx <= Len(pendingJobs)
    /\ ~ctxErr
    /\ ~shouldAttempt(worker, pendingJobs[idx], now)
    /\ idx' = RangeNext(idx)
    /\ UNCHANGED <<worker, clock, ctxErr, pc, now, pendingJobs, exec, trace, log>>
    /\ UNCHANGED others

\* mutant: executeJob counts the attempt on the job it was given
ExecuteJobStartBumpsRetry(w, job, n) ==
    [NoExec EXCEPT !.job = [job EXCEPT !.RetryCount = job.RetryCount + 1],
                   !.attemptedAt = UTC(n)]

\* executeJob up to its call of Dispatcher.Attempt
ExecuteJobStart(w, job, n) ==
    [NoExec EXCEPT !.job = job, !.attemptedAt = UTC(n)]

\* mutant: the job is judged and stamped with a new reading of the clock
LoopExecuteReadsClock ==
    /\ pc = "loop"
    /\ idx <= Len(pendingJobs)
    /\ ~ctxErr
    /\ shouldAttempt(worker, pendingJobs[idx], clock)
    /\ exec' = ExecuteJobStart(worker, pendingJobs[idx], clock)
    /\ trace' = Append(trace, Event("Attempt", idx, exec'.job, FALSE))
    /\ pc' = "Attempt"
    /\ UNCHANGED <<worker, clock, ctxErr, now, pendingJobs, idx, log>>
    /\ UNCHANGED others

\* mutant: the job is executed without a look at the context
LoopExecuteUnchecked ==
    /\ pc = "loop"
    /\ idx <= Len(pendingJobs)
    /\ shouldAttempt(worker, pendingJobs[idx], now)
    /\ exec' = ExecuteJobStart(worker, pendingJobs[idx], now)
    /\ trace' = Append(trace, Event("Attempt", idx, exec'.job, FALSE))
    /\ pc' = "Attempt"
    /\ UNCHANGED <<worker, clock, ctxErr, now, pendingJobs, idx, log>>
    /\ UNCHANGED others

\* the next job is to be attempted: executeJob calls Dispatcher.Attempt
LoopExecuteStep ==
    /\ pc = "loop"
    /\ idx <= Len(pendingJobs)
    /\ ~ctxErr
    /\ shouldAttempt(worker, pendingJobs[idx], now)
    /\ exec' = ExecuteJobStart(worker, pendingJobs[idx], now)
    /\ trace' = Append(trace, Event("Attempt", idx, exec'.job, FALSE))
    /\ pc' = "Attempt"
    /\ UNCHANGED <<worker, clock, ctxErr, now, pendingJobs, idx, log>>

LoopExecute ==
    /\ LoopExecuteStep
    /\ UNCHANGED others

\* mutant: the update is stamped with the clock read when Attempt returned
ExecuteJobDispatchedStampsLate(w, e, result, dispatchErr) ==
    [e EXCEPT !.result = result,
              !.dispatchErr = dispatchErr,
              !.update = BuildUpdate(w, e.job, UTC(clock), result, dispatchErr)]

\* executeJob from the return of Dispatcher.Attempt to its call of
\* Repository.ApplyAttemptResult
ExecuteJobDispatched(w, e, result, dispatchErr) ==
    [e EXCEPT !.result = result,
              !.dispatchErr = dispatchErr,
              !.update = BuildUpdate(w, e.job, e.attemptedAt, result, dispatchErr)]

\* mutant: a failed dispatch is not recorded, the loop goes on to the next job
AttemptReturnDropsFailed ==
    /\ pc = "Attempt"
    /\ \E result \in DispatchResults, dispatchErr \in DispatchErrors :
          IF dispatchErr # ""
          THEN /\ exec' = NoExec
               /\ trace' = Append(trace, Event("AttemptReturn", idx, exec.job, TRUE))
               /\ idx' = idx + 1
               /\ pc' = "loop"
          ELSE /\ exec' = ExecuteJobDispatched(worker, exec, result, dispatchErr)
               /\ trace' = trace
                           \o <<Event("AttemptReturn", idx, exec.job, FALSE),
                                Event("ApplyAttemptResult", idx, exec'.job, FALSE)>>
               /\ idx' = idx
               /\ pc' = "ApplyAttemptResult"
    /\ UNCHANGED <<worker, clock, ctxErr, now, pendingJobs, log>>
    /\ UNCHANGED others

\* mutant: ApplyAttemptResult is started and not waited for
AttemptReturnAsyncApply ==
    /\ pc = "Attempt"
    /\ \E result \in DispatchResults, dispatchErr \in DispatchErrors :
          trace' = trace
                   \o <<Event("AttemptReturn", idx, exec.job, dispatchErr # ""),
                        Event("ApplyAttemptResult", idx, exec.job, FALSE)>>
    /\ exec' = NoExec
    /\ idx' = idx + 1
    /\ pc' = "loop"
    /\ UNCHANGED <<worker, clock, ctxErr, now, pendingJobs, log>>
    /\ UNCHANGED others

AttemptReturn ==
    /\ pc = "Attempt"
    /\ \E result \in DispatchResults, dispatchErr \in DispatchErrors :
          /\ exec' = ExecuteJobDispatched(worker, exec, result, dispatchErr)
          /\ trace' = trace
                      \o <<Event("AttemptReturn", idx, exec.job, dispatchErr # ""),
                           Event("ApplyAttemptResult", idx, exec'.job, FALSE)>>
    /\ pc' = "ApplyAttemptResult"
    /\ UNCHANGED <<worker, clock, ctxErr, now, pendingJobs, idx, log>>
    /\ UNCHANGED others

\* mutant: executeJob returns once it has logged a persistence error
ExecuteJobLogStopsAtApplyError(e, applyErr) ==
    IF applyErr # "" THEN <<LogEvent("scheduler_apply_attempt_error", e.job.ID)>>
    ELSE IF e.dispatchErr # ""
    THEN <<LogEvent("scheduler_dispatch_error", e.job.ID)>>
    ELSE <<LogEvent("scheduler_dispatch_success", e.job.ID)>>

\* the events executeJob logs once ApplyAttemptResult has returned
ExecuteJobLog(e, applyErr) ==
    (IF applyErr # "" THEN <<LogEvent("scheduler_apply_attempt_error", e.job.ID)>>
                      ELSE << >>)
    \o (IF e.dispatchErr # ""
        THEN <<LogEvent("scheduler_dispatch_error", e.job.ID)>>
        ELSE <<LogEvent("scheduler_dispatch_success", e.job.ID)>>)

\* mutant: a persistence error ends the cycle
ApplyAttemptResultReturnAborts ==
    /\ pc = "ApplyAttemptResult"
    /\ \E applyErr \in {"", "apply failed"} :
          /\ trace' = Append(trace, Event("ApplyAttemptResultReturn", idx, exec.job,
                                          applyErr # ""))
          /\ log' = log \o ExecuteJobLog(exec, applyErr)
          /\ pc' = IF applyErr # "" THEN "idle" ELSE "loop"
    /\ exec' = NoExec
    /\ idx' = RangeNext(idx)
    /\ UNCHANGED <<worker, clock, ctxErr, now, pendingJobs>>
    /\ UNCHANGED others

\* mutant: a failed ApplyAttemptResult is called again
ApplyAttemptResultReturnedRetries(applyErr) ==
    /\ pc = "ApplyAttemptResult"
    /\ trace' = Append(trace, Event("ApplyAttemptResultReturn", idx, exec.job,
                                    applyErr # ""))
    /\ log' = log \o ExecuteJobLog(exec, applyErr)
    /\ exec' = IF applyErr # "" THEN exec ELSE NoExec
    /\ idx' = IF applyErr # "" THEN idx ELSE RangeNext(idx)
    /\ pc' = IF applyErr # "" THEN "ApplyAttemptResult" ELSE "loop"
    /\ UNCHANGED <<worker, clock, ctxErr, now, pendingJobs>>

\* ApplyAttemptResult returns applyErr: executeJob logs and returns, and the
\* range loop goes on to the next entry
ApplyAttemptResultReturned(applyErr) ==
    /\ pc = "ApplyAttemptResult"
    /\ trace' = Append(trace, Event("ApplyAttemptResultReturn", idx, exec.job,
                                    applyErr # ""))
    /\ log' = log \o ExecuteJobLog(exec, applyErr)
    /\ exec' = NoExec
    /\ idx' = RangeNext(idx)
    /\ pc' = "loop"
    /\ UNCHANGED <<worker, clock, ctxErr, now, pendingJobs>>

\* ApplyAttemptResult returns, with an error or without
ApplyAttemptResultReturn ==
    /\ \E applyErr \in {"", "apply failed"} : ApplyAttemptResultReturned(applyErr)
    /\ UNCHANGED others

----------------------------------------------------------------------------
(* A storing Repository, and a second Worker on it                         *)

\* PendingJobs of a storing Repository: the jobs whose RetryCount has not
\* reached maxRetries, in the order of the table
PendingOf(table, maxRetries) ==
    SelectSeq(table, LAMBDA job : job.RetryCount < maxRetries)

\* ApplyAttemptResult of a storing Repository: the update is recorded on the
\* job of that ID
ApplyTo(table, job, update) ==
    [k \in DOMAIN table |->
        IF table[k].ID = job.ID
        THEN [table[k] EXCEPT !.RetryCount = update.RetryCount,
                              !.LastAttemptedAt = update.LastAttemptedAt]
        ELSE table[k]]

\* PendingJobs returns what the Repository holds
PendingJobsReturnStored ==
    PendingJobsReturnFrom({PendingOf(store, worker.maxRetries)})

\* ApplyAttemptResult returns: the update is stored, or the call failed and
\* the Repository holds what it held
ApplyAttemptResultStored ==
    /\ \E applyErr \in {"", "apply failed"} :
          /\ ApplyAttemptResultReturned(applyErr)
          /\ store' = IF applyErr = "" THEN ApplyTo(store, exec.job, exec.update)
                                       ELSE store
          /\ unsaved' = IF applyErr = "" THEN NoUnsaved
                                         ELSE [job |-> exec.job, update |-> exec.update]
    /\ UNCHANGED <<run, tick, runPrev, config, newErr, peer, chat, ledger>>

\* ApplyAttemptResult of a Repository that stores every update
ApplyAttemptResultDurable ==
    /\ ApplyAttemptResultReturned("")
    /\ store' = ApplyTo(store, exec.job, exec.update)
    /\ UNCHANGED <<run, tick, runPrev, config, newErr, unsaved, peer, chat, ledger>>

\* the Attempt call of LoopExecute, counted for its job
LoopExecuteCounted ==
    /\ LoopExecuteStep
    /\ ledger' = [ledger EXCEPT !.attempts[pendingJobs[idx].ID] = @ + 1]
    /\ UNCHANGED <<run, tick, runPrev, config, newErr, store, unsaved, peer, chat>>

\* the second Worker starts a cycle: runCycle up to its PendingJobs call
PeerCycleEnter ==
    /\ peer.pc = "idle"
    /\ ~ctxErr
    /\ peer' = [IdlePeer EXCEPT !.pc = "PendingJobs", !.now = clock]
    /\ UNCHANGED <<worker, clock, ctxErr, pc, now, pendingJobs, idx, exec, trace, log>>
    /\ UNCHANGED <<run, tick, runPrev, config, newErr, store, unsaved, chat, ledger>>

\* its PendingJobs returns what the Repository holds
PeerPendingJobsReturn ==
    /\ peer.pc = "PendingJobs"
    /\ peer' = [peer EXCEPT !.pc = "loop",
                            !.pendingJobs = PendingOf(store, worker.maxRetries)]
    /\ UNCHANGED <<worker, clock, ctxErr, pc, now, pendingJobs, idx, exec, trace, log>>
    /\ UNCHANGED <<run, tick, runPrev, config, newErr, store, unsaved, chat, ledger>>

\* its range loop: the end of the list, a cancelled context, a job to skip
\* or a job to execute
PeerLoop ==
    /\ peer.pc = "loop"
    /\ peer' =
          IF peer.idx > Len(peer.pendingJobs) \/ ctxErr
          THEN [peer EXCEPT !.pc = "idle"]
          ELSE IF ~shouldAttempt(worker, peer.pendingJobs[peer.idx], peer.now)
          THEN [peer EXCEPT !.idx = RangeNext(peer.idx)]
          ELSE [peer EXCEPT !.pc = "Attempt",
                            !.exec = ExecuteJobStart(worker, peer.pendingJobs[peer.idx],
                                                     peer.now)]
    /\ UNCHANGED <<worker, clock, ctxErr, pc, now, pendingJobs, idx, exec, trace, log>>
    /\ UNCHANGED <<run, tick, runPrev, config, newErr, store, unsaved, chat, ledger>>

\* its Dispatcher.Attempt returns
PeerAttemptReturn ==
    /\ peer.pc = "Attempt"
    /\ \E result \in DispatchResults, dispatchErr \in DispatchErrors :
          peer' = [peer EXCEPT !.pc = "ApplyAttemptResult",
                               !.exec = ExecuteJobDispatched(worker, peer.exec,
                                                             result, dispatchErr)]
    /\ UNCHANGED <<worker, clock, ctxErr, pc, now, pendingJobs, idx, exec, trace, log>>
    /\ UNCHANGED <<run, tick, runPrev, config, newErr, store, unsaved, chat, ledger>>

\* its ApplyAttemptResult returns: the update is stored
PeerApplyAttemptResultReturn ==
    /\ peer.pc = "ApplyAttemptResult"
    /\ store' = ApplyTo(store, peer.exec.job, peer.exec.update)
    /\ unsaved' = IF unsaved.job.ID = peer.exec.job.ID THEN NoUnsaved ELSE unsaved
    /\ peer' = [peer EXCEPT !.pc = "loop", !.idx = RangeNext(peer.idx),
                            !.exec = NoExec]
    /\ UNCHANGED <<worker, clock, ctxErr, pc, now, pendingJobs, idx, exec, trace, log>>
    /\ UNCHANGED <<run, tick, runPrev, config, newErr, chat, ledger>>

----------------------------------------------------------------------------
(* The environment                                                         *)

\* the caller cancels the context
Cancel ==
    /\ ~ctxErr
    /\ ctxErr' = TRUE
    /\ UNCHANGED <<worker, clock, pc, now, pendingJobs, idx, exec, trace, log>>
    /\ UNCHANGED others

\* time passes
ClockAdvanceIn(times) ==
    /\ \E t \in times : t > clock /\ clock' = t
    /\ UNCHANGED <<worker, ctxErr, pc, now, pendingJobs, idx, exec, trace, log>>
    /\ UNCHANGED others

----------------------------------------------------------------------------
(* Run                                                                     *)

\* what a finished cycle came to: nothing was run, a call failed, or none did
CycleOutcome ==
    IF trace = << >> THEN runPrev
    ELSE IF \E k \in 1..Len(trace) : trace[k].failed THEN "failed"
    ELSE "clean"

\* Run is called: a new ticker, and the start is logged
RunStart ==
    /\ run = "off"
    /\ pc = "idle"
    /\ run' = "running"
    /\ tick' = FALSE
    /\ runPrev' = "none"
    /\ now' = 0
    /\ pendingJobs' = << >>
    /\ idx' = 1
    /\ exec' = NoExec
    /\ trace' = << >>
    /\ log' = <<LogEvent("scheduler_worker_started", "")>>
    /\ UNCHANGED <<worker, clock, ctxErr, pc, config, newErr>>
    /\ UNCHANGED beyond

\* the ticker sends a tick; ticker.C holds one tick, a second one is dropped
Tick ==
    /\ run = "running"
    /\ ~tick
    /\ tick' = TRUE
    /\ UNCHANGED <<worker, clock, ctxErr, pc, now, pendingJobs, idx, exec, trace, log>>
    /\ UNCHANGED <<run, runPrev, config, newErr>>
    /\ UNCHANGED beyond

\* mutant: Run takes a tick without taking it off the channel, and its
\* cycle runs under a cancelled context as well
RunSelectTickUnchecked ==
    /\ run = "running"
    /\ tick
    /\ runPrev' = CycleOutcome
    /\ RunCycleEntryUnchecked
    /\ UNCHANGED <<run, tick, config, newErr>>
    /\ UNCHANGED beyond

\* mutant: Run does not wait for the ticker, it runs cycle after cycle
RunSelectTickUnawaited ==
    /\ run = "running"
    /\ tick' = FALSE
    /\ runPrev' = IF ctxErr THEN "skipped" ELSE CycleOutcome
    /\ RunCycleEntry
    /\ UNCHANGED <<run, config, newErr>>
    /\ UNCHANGED beyond

\* mutant: Run takes no tick once a cycle has had a failed call
RunSelectTickStopsAfterFailure ==
    /\ run = "running"
    /\ tick
    /\ CycleOutcome # "failed"
    /\ tick' = FALSE
    /\ runPrev' = IF ctxErr THEN "skipped" ELSE CycleOutcome
    /\ RunCycleEntry
    /\ UNCHANGED <<run, config, newErr>>
    /\ UNCHANGED beyond

\* select takes the tick: runCycle
RunSelectTick ==
    /\ run = "running"
    /\ tick
    /\ tick' = FALSE
    /\ runPrev' = IF ctxErr THEN "skipped" ELSE CycleOutcome
    /\ RunCycleEntry
    /\ UNCHANGED <<run, config, newErr>>
    /\ UNCHANGED beyond

\* select takes ctx.Done(): the stop is logged and Run returns
RunSelectDone ==
    /\ run = "running"
    /\ pc = "idle"
    /\ ctxErr
    /\ run' = "returned"
    /\ log' = Append(log, LogEvent("scheduler_worker_stopped", ""))
    /\ UNCHANGED <<worker, clock, ctxErr, pc, now, pendingJobs, idx, exec, trace>>
    /\ UNCHANGED <<tick, runPrev, config, newErr>>
    /\ UNCHANGED beyond

----------------------------------------------------------------------------
(* llm: Factory.Chat                                                       *)

\* ErrEmptyResponse
ErrEmptyResponse == "llm returned empty response"
\* the error of a cancelled context
ContextCanceled == "context canceled"

\* strings.TrimSpace on a string held as a sequence of characters
WhiteSpace == {" ", "\t", "\n", "\r"}
RECURSIVE TrimLeft(_)
TrimLeft(str) ==
    IF str = << >> \/ Head(str) \notin WhiteSpace THEN str ELSE TrimLeft(Tail(str))
RECURSIVE TrimRight(_)
TrimRight(str) ==
    IF str = << >> \/ str[Len(str)] \notin WhiteSpace
    THEN str
    ELSE TrimRight(SubSeq(str, 1, Len(str) - 1))
TrimSpace(str) == TrimRight(TrimLeft(str))

\* mutant: a MaxAttempts of zero or less means the default of three attempts
ChatAttemptsDefaultsThree(policy) ==
    IF policy.MaxAttempts <= 0 THEN 3 ELSE policy.MaxAttempts

\* attempts := factory.retryPolicy.MaxAttempts, at least 1
ChatAttempts(policy) ==
    IF policy.MaxAttempts <= 0 THEN 1 ELSE policy.MaxAttempts

\* delay := factory.retryPolicy.InitialBackoff, at least 0
ChatInitialDelay(policy) ==
    IF policy.InitialBackoff < 0 THEN 0 ELSE policy.InitialBackoff

\* mutant: the wait is the delay, whatever MaxBackoff is
ChatWaitUnclamped(delay, policy) == delay

\* wait := delay, at most MaxBackoff when that is positive
ChatWait(delay, policy) ==
    IF policy.MaxBackoff > 0 /\ delay > policy.MaxBackoff
    THEN policy.MaxBackoff
    ELSE delay

\* a quotient rounded towards zero, as the conversion of a float64 to an
\* integer rounds
TruncDiv(a, b) == IF a >= 0 THEN a \div b ELSE -((-a) \div b)

\* time.Duration(float64(delay) * multiplier), the multiplier a fraction
\* <<numerator, denominator>>: a product outside the int64 range converts to
\* the least or to the greatest int64, as the processor has it
ScaledDelays(delay, multiplier) ==
    LET scaled == TruncDiv(delay * multiplier[1], multiplier[2])
    IN  IF scaled >= Int64Half \/ scaled < -Int64Half
        THEN {-Int64Half, Int64Half - 1}
        ELSE {scaled}

\* the delays the next round may have: the scaled delay, the old delay when
\* that is not positive, at most MaxBackoff when that is positive
NextDelays(delay, policy) ==
    {LET next == IF scaled <= 0 THEN delay ELSE scaled
     IN  IF policy.MaxBackoff > 0 /\ next > policy.MaxBackoff
         THEN policy.MaxBackoff
         ELSE next : scaled \in ScaledDelays(delay, policy.BackoffMultiplier)}

\* Chat returns
ChatReturn(c, err, text, wraps) ==
    [c EXCEPT !.pc = "done",
              !.ret = [err |-> err, text |-> text, attempts |-> c.attempts,
                       wraps |-> wraps]]

\* Chat calls the base client for the next attempt
ChatNextAttempt(c, next) ==
    [c EXCEPT !.pc = "call", !.delay = next, !.attempt = c.attempt + 1,
              !.calls = c.calls + 1]

\* mutant: a blank response is returned as it is
ChatAfterCallAcceptsBlank(c, response, callErr, cancelled, next) ==
    LET trimmed == TrimSpace(response)
        seen == [c EXCEPT !.last = [response |-> response, err |-> callErr],
                          !.lastError = callErr]
    IN  IF callErr = "" THEN ChatReturn(seen, "", trimmed, "")
        ELSE IF c.attempt >= c.attempts
        THEN ChatReturn(seen, "llm chat failed after attempts", << >>, callErr)
        ELSE IF cancelled
        THEN ChatReturn(seen, "llm chat cancelled", << >>, ContextCanceled)
        ELSE IF ChatWait(c.delay, c.policy) > 0
        THEN [seen EXCEPT !.pc = "sleep",
                          !.sleeps = Append(c.sleeps, ChatWait(c.delay, c.policy))]
        ELSE ChatNextAttempt(seen, next)

\* mutant: the context is not looked at between the attempts
ChatAfterCallIgnoresContext(c, response, callErr, cancelled, next) ==
    LET trimmed == TrimSpace(response)
        failure == IF callErr # "" THEN callErr
                   ELSE IF trimmed = << >> THEN ErrEmptyResponse ELSE ""
        seen == [c EXCEPT !.last = [response |-> response, err |-> callErr],
                          !.lastError = failure]
    IN  IF failure = "" THEN ChatReturn([seen EXCEPT !.lastError = c.lastError],
                                        "", trimmed, "")
        ELSE IF c.attempt >= c.attempts
        THEN ChatReturn(seen, "llm chat failed after attempts", << >>, failure)
        ELSE IF ChatWait(c.delay, c.policy) > 0
        THEN [seen EXCEPT !.pc = "sleep",
                          !.sleeps = Append(c.sleeps, ChatWait(c.delay, c.policy))]
        ELSE ChatNextAttempt(seen, next)

\* Chat from the return of the base client to its own return or to its next
\* call: a response that is not blank is returned trimmed; a failure ends
\* Chat when it was the last attempt or the context is cancelled; otherwise
\* Chat sleeps for the wait, or goes on at once when the wait is zero
ChatAfterCall(c, response, callErr, cancelled, next) ==
    LET trimmed == TrimSpace(response)
        failure == IF callErr # "" THEN callErr
                   ELSE IF trimmed = << >> THEN ErrEmptyResponse ELSE ""
        seen == [c EXCEPT !.last = [response |-> response, err |-> callErr],
                          !.lastError = failure]
    IN  IF failure = "" THEN ChatReturn([seen EXCEPT !.lastError = c.lastError],
                                        "", trimmed, "")
        ELSE IF c.attempt >= c.attempts
        THEN ChatReturn(seen, "llm chat failed after attempts", << >>, failure)
        ELSE IF cancelled
        THEN ChatReturn(seen, "llm chat cancelled", << >>, ContextCanceled)
        ELSE IF ChatWait(c.delay, c.policy) > 0
        THEN [seen EXCEPT !.pc = "sleep",
                          !.sleeps = Append(c.sleeps, ChatWait(c.delay, c.policy))]
        ELSE ChatNextAttempt(seen, next)

\* mutant: an error of the sleep function is passed over
ChatAfterSleepIgnoresError(c, sleepErr, next) == ChatNextAttempt(c, next)

\* Chat from the return of the sleep function: its error ends Chat;
\* otherwise the next attempt, with the next delay
ChatAfterSleep(c, sleepErr, next) ==
    IF sleepErr # ""
    THEN ChatReturn(c, "llm chat retry interrupted", << >>, sleepErr)
    ELSE ChatNextAttempt(c, next)

\* Chat is called: not on a nil Factory or base client; the first attempt
ChatEnter ==
    /\ chat.pc = "start"
    /\ chat' = IF ~chat.configured
               THEN ChatReturn(chat, "llm factory is not configured", << >>, "")
               ELSE [chat EXCEPT !.pc = "call",
                                 !.attempts = ChatAttempts(chat.policy),
                                 !.delay = ChatInitialDelay(chat.policy),
                                 !.attempt = 1,
                                 !.calls = 1]
    /\ UNCHANGED <<worker, clock, ctxErr, pc, now, pendingJobs, idx, exec, trace, log>>
    /\ UNCHANGED <<run, tick, runPrev, config, newErr, store, unsaved, peer, ledger>>

\* the base client returns a response or an error
ChatClientReturnFrom(responses, callErrs) ==
    /\ chat.pc = "call"
    /\ \E response \in responses, callErr \in callErrs,
          next \in NextDelays(chat.delay, chat.policy) :
          chat' = ChatAfterCall(chat, IF callErr = "" THEN response ELSE << >>,
                                callErr, ctxErr, next)
    /\ UNCHANGED <<worker, clock, ctxErr, pc, now, pendingJobs, idx, exec, trace, log>>
    /\ UNCHANGED <<run, tick, runPrev, config, newErr, store, unsaved, peer, ledger>>

\* the sleep function returns, with an error or without
ChatSleepReturn ==
    /\ chat.pc = "sleep"
    /\ \E sleepErr \in {"", "sleep failed"},
          next \in NextDelays(chat.delay, chat.policy) :
          chat' = [ChatAfterSleep(chat, sleepErr, next) EXCEPT !.sleepErr = sleepErr]
    /\ UNCHANGED <<worker, clock, ctxErr, pc, now, pendingJobs, idx, exec, trace, log>>
    /\ UNCHANGED <<run, tick, runPrev, config, newErr, store, unsaved, peer, ledger>>

----------------------------------------------------------------------------
(* llm: normaliseRetryPolicy                                               *)
(* The function only compares durations, so here a Duration counts         *)
(* milliseconds.  A float64 is a fraction <<numerator, denominator>> with  *)
(* a denominator that is not negative: <<1, 0>> is +Inf, <<-1, 0>> is -Inf *)
(* and <<0, 0>> is NaN, which every comparison answers with false.         *)

defaultRetryAttempts == 3
defaultRetryInitialBackoff == 200
defaultRetryMaxBackoff == 2000
defaultRetryMultiplier == <<2, 1>>

IsNaN(x) == x[1] = 0 /\ x[2] = 0
\* x <= 0 and x > 0 on a float64
FloatLeqZero(x) == ~IsNaN(x) /\ x[1] <= 0
FloatAboveZero(x) == ~IsNaN(x) /\ x[1] > 0

\* mutant: MaxBackoff is left below InitialBackoff
normaliseRetryPolicyKeepsMaxBackoff(policy) ==
    LET attempts == IF policy.MaxAttempts <= 0 THEN defaultRetryAttempts
                    ELSE policy.MaxAttempts
        initial == IF policy.InitialBackoff <= 0 THEN defaultRetryInitialBackoff
                   ELSE policy.InitialBackoff
        maxBackoff == IF policy.MaxBackoff <= 0 THEN defaultRetryMaxBackoff
                      ELSE policy.MaxBackoff
        multiplier == IF FloatLeqZero(policy.BackoffMultiplier)
                      THEN defaultRetryMultiplier
                      ELSE policy.BackoffMultiplier
    IN  [MaxAttempts |-> attempts, InitialBackoff |-> initial,
         MaxBackoff |-> maxBackoff, BackoffMultiplier |-> multiplier]

normaliseRetryPolicy(policy) ==
    LET attempts == IF policy.MaxAttempts <= 0 THEN defaultRetryAttempts
                    ELSE policy.MaxAttempts
        initial == IF policy.InitialBackoff <= 0 THEN defaultRetryInitialBackoff
                   ELSE policy.InitialBackoff
        positiveMax == IF policy.MaxBackoff <= 0 THEN defaultRetryMaxBackoff
                       ELSE policy.MaxBackoff
        maxBackoff == IF positiveMax < initial THEN initial ELSE positiveMax
        multiplier == IF FloatLeqZero(policy.BackoffMultiplier)
                      THEN defaultRetryMultiplier
                      ELSE policy.BackoffMultiplier
    IN  [MaxAttempts |-> attempts, InitialBackoff |-> initial,
         MaxBackoff |-> maxBackoff, BackoffMultiplier |-> multiplier]

\* WithRetryPolicy: the policy handed in is normalised
WithRetryPolicy ==
    /\ chat.pc = "raw"
    /\ chat' = [chat EXCEPT !.pc = "normalised",
                            !.policy = normaliseRetryPolicy(chat.policy)]
    /\ UNCHANGED <<worker, clock, ctxErr, pc, now, pendingJobs, idx, exec, trace, log>>
    /\ UNCHANGED <<run, tick, runPrev, config, newErr, store, unsaved, peer, ledger>>

\* WithRetryPolicy with the policy of a Factory, normalised already
WithRetryPolicyAgain ==
    /\ chat.pc = "normalised"
    /\ chat' = [chat EXCEPT !.pc = "normalised twice",
                            !.policy = normaliseRetryPolicy(chat.policy)]
    /\ UNCHANGED <<worker, clock, ctxErr, pc, now, pendingJobs, idx, exec, trace, log>>
    /\ UNCHANGED <<run, tick, runPrev, config, newErr, store, unsaved, peer, ledger>>

\* NewWorker is called with config: a Worker and no error, or an error and
\* no Worker
Construct ==
    /\ pc = "new"
    /\ LET built == NewWorker(config)
       IN  /\ worker' = IF built.ok THEN built.worker ELSE NoWorker
           /\ newErr' = IF built.ok THEN NoError
                                    ELSE [err |-> built.err, msg |-> built.msg]
           /\ pc' = IF built.ok THEN "idle" ELSE "no worker"
    /\ UNCHANGED <<clock, ctxErr, now, pendingJobs, idx, exec, trace, log>>
    /\ UNCHANGED <<run, tick, runPrev, config>>
    /\ UNCHANGED beyond

----------------------------------------------------------------------------
(* Specifications                                                          *)

\* Spec: batches of up to MaxBatch jobs as a Repository holds them
Init == InitWith(ConfigsWith(Intervals), ClockTimes)
PendingJobsReturn == PendingJobsReturnFrom(BatchesOf(StoredJobs, MaxBatch))
ClockAdvance == ClockAdvanceIn(ClockTimes)

Next ==
    \/ RunCycleEnter
    \/ PendingJobsFail
    \/ PendingJobsReturn
    \/ LoopDone
    \/ LoopCancelled
    \/ LoopSkip
    \/ LoopExecute
    \/ AttemptReturn
    \/ ApplyAttemptResultReturn
    \/ Cancel
    \/ ClockAdvance

Spec == Init /\ [][Next]_vars

\* SpecEligibility: the same Worker, fed one job at a time with every
\* combination of its fields
InitEligibility == InitWith(ConfigsWith(WideIntervals), WideClockTimes)
PendingJobsReturnAny == PendingJobsReturnFrom(BatchesOf(AnyJobs, 1))
ClockAdvanceWide == ClockAdvanceIn(WideClockTimes)

NextEligibility ==
    \/ RunCycleEnter
    \/ PendingJobsFail
    \/ PendingJobsReturnAny
    \/ LoopDone
    \/ LoopCancelled
    \/ LoopSkip
    \/ LoopExecute
    \/ AttemptReturn
    \/ ApplyAttemptResultReturn
    \/ Cancel
    \/ ClockAdvanceWide

SpecEligibility == InitEligibility /\ [][NextEligibility]_vars

\* SpecRun: RunOnce and then Run, fed at most one job a cycle
RunJobs == {job \in StoredJobs : job.ID = "job-a"}
PendingJobsReturnRun == PendingJobsReturnFrom(BatchesOf(RunJobs, 1))

NextRun ==
    \/ RunCycleEnter
    \/ RunStart
    \/ Tick
    \/ RunSelectTick
    \/ RunSelectDone
    \/ PendingJobsFail
    \/ PendingJobsReturnRun
    \/ LoopDone
    \/ LoopCancelled
    \/ LoopSkip
    \/ LoopExecute
    \/ AttemptReturn
    \/ ApplyAttemptResultReturn
    \/ Cancel
    \/ ClockAdvance

SpecRun == Init /\ [][NextRun]_vars

\* every call returns, the ticker keeps ticking and the select takes a case
\* that stays ready
FairRun ==
    /\ WF_vars(PendingJobsFail \/ PendingJobsReturnRun)
    /\ WF_vars(AttemptReturn)
    /\ WF_vars(ApplyAttemptResultReturn)
    /\ WF_vars(LoopDone \/ LoopCancelled \/ LoopSkip \/ LoopExecute)
    /\ WF_vars(Tick)
    /\ WF_vars(RunSelectTick)
    /\ WF_vars(RunSelectDone)

SpecRunFair == SpecRun /\ FairRun

\* SpecStore: two Workers of one Config on a Repository that stores one job
\* and has no claim or lease
Stores == {<<job>> : job \in {j \in StoredJobs : j.ID = "job-a" /\ j.ScheduledFor = Nil}}
InitStore == InitStored(ConfigsWith(Intervals), ClockTimes, Stores)

NextStore ==
    \/ RunCycleEnter
    \/ PendingJobsFail
    \/ PendingJobsReturnStored
    \/ LoopDone
    \/ LoopCancelled
    \/ LoopSkip
    \/ LoopExecute
    \/ AttemptReturn
    \/ ApplyAttemptResultStored
    \/ PeerCycleEnter
    \/ PeerPendingJobsReturn
    \/ PeerLoop
    \/ PeerAttemptReturn
    \/ PeerApplyAttemptResultReturn
    \/ Cancel
    \/ ClockAdvance

SpecStore == InitStore /\ [][NextStore]_vars

\* SpecDurable: Run of one Worker on a Repository that stores every update
\* and lists each job it holds once; MaxRetries of 1, of MaxStoredRetries
\* and above the shift cap, the interval 1 and the interval whose backoff at
\* the shift cap leaves the int64 range
MaxStoredRetries == 2
DurableConfigs ==
    [Repository : {TRUE}, Dispatcher : {TRUE}, Logger : {TRUE},
     Interval : {1, OverflowInterval},
     MaxRetries : {1, MaxStoredRetries, maxBackoffShift + 1},
     SuccessStatus : {"sent"}, FailureStatus : {"failed"}, Clock : {"fixedClock"}]
DurableJobs(id) ==
    {j \in [ID : {id}, ScheduledFor : {Nil, Ptr(MaxTime)},
            RetryCount : {0, 1, maxBackoffShift}, LastAttemptedAt : {0, 1}] :
        (j.RetryCount = 0) <=> (j.LastAttemptedAt = 0)}
DurableStores ==
    {<<a>> : a \in DurableJobs("job-a")}
    \cup {<<a, b>> : a \in DurableJobs("job-a"),
                     b \in {j \in DurableJobs("job-b") : j.ScheduledFor = Nil}}
InitDurable ==
    /\ InitKept(DurableConfigs, ClockTimes, DurableStores, TRUE)
    /\ \A k \in DOMAIN store : store[k].RetryCount <= worker.maxRetries

NextDurable ==
    \/ RunStart
    \/ Tick
    \/ RunSelectTick
    \/ RunSelectDone
    \/ PendingJobsFail
    \/ PendingJobsReturnStored
    \/ LoopDone
    \/ LoopCancelled
    \/ LoopSkip
    \/ LoopExecuteCounted
    \/ AttemptReturn
    \/ ApplyAttemptResultDurable
    \/ Cancel
    \/ ClockAdvance

SpecDurable == InitDurable /\ [][NextDurable]_vars

\* every call returns, PendingJobs with a list time and again, the clock
\* goes on, the ticker keeps ticking and the select takes a case that stays
\* ready
FairDurable ==
    /\ SF_vars(PendingJobsReturnStored)
    /\ WF_vars(PendingJobsFail \/ PendingJobsReturnStored)
    /\ WF_vars(AttemptReturn)
    /\ WF_vars(ApplyAttemptResultDurable)
    /\ WF_vars(LoopDone \/ LoopCancelled \/ LoopSkip \/ LoopExecuteCounted)
    /\ WF_vars(ClockAdvance)
    /\ WF_vars(RunStart)
    /\ WF_vars(Tick)
    /\ WF_vars(RunSelectTick)
    /\ WF_vars(RunSelectDone)

\* SpecRetryFair: the same Run on a Repository that holds one job
InitRetry ==
    /\ InitDurable
    /\ Len(store) = 1

SpecRetry == InitRetry /\ [][NextDurable]_vars

SpecRetryFair == SpecRetry /\ FairDurable

\* SpecChat: one call of Factory.Chat for every retry policy, normalised or
\* not, under a context that may be cancelled at any moment
MaxChatAttempts == 3
MaxChatBackoff == 2
RetryPolicies ==
    [MaxAttempts : -1..MaxChatAttempts,
     InitialBackoff : {-1, 0, 1} \cup {MaxChatBackoff + 3, Int64Half \div 2},
     MaxBackoff : {-1, 0, MaxChatBackoff},
     BackoffMultiplier : {<<0, 1>>, <<-1, 1>>, <<1, 2>>, <<2, 1>>}]
Responses == {<< >>, <<" ">>, <<"\n", " ">>, <<"o", "k">>, <<" ", "o", " ", "k", "\n">>}
CallErrors == {"", "transport failed"}

InitChat ==
    /\ \E configured \in BOOLEAN, policy \in RetryPolicies :
          chat = [NoChat EXCEPT !.pc = "start", !.configured = configured,
                                !.policy = policy]
    /\ config = [Repository |-> FALSE, Dispatcher |-> FALSE, Logger |-> FALSE,
                 Interval |-> 0, MaxRetries |-> 0, SuccessStatus |-> "",
                 FailureStatus |-> "", Clock |-> "nil"]
    /\ worker = NoWorker
    /\ newErr = NoError
    /\ clock = 1
    /\ ctxErr = FALSE
    /\ pc = "no worker"
    /\ now = 0
    /\ pendingJobs = << >>
    /\ idx = 1
    /\ exec = NoExec
    /\ trace = << >>
    /\ log = << >>
    /\ run = "off"
    /\ tick = FALSE
    /\ runPrev = "none"
    /\ store = NoStore
    /\ unsaved = NoUnsaved
    /\ peer = IdlePeer
    /\ ledger = NoLedger

ChatClientReturn == ChatClientReturnFrom(Responses, CallErrors)

\* SpecNormalise: normaliseRetryPolicy applied to every policy of
\* RawPolicies, and to its own result
RawPolicies ==
    [MaxAttempts : {-1, 0, 1, defaultRetryAttempts, defaultRetryAttempts + 2},
     InitialBackoff : {-1, 0, 1, defaultRetryInitialBackoff,
                       defaultRetryMaxBackoff + 1000},
     MaxBackoff : {-1, 0, 1, defaultRetryInitialBackoff - 100,
                   defaultRetryMaxBackoff, defaultRetryMaxBackoff + 3000},
     BackoffMultiplier : {<<-1, 0>>, <<-1, 1>>, <<0, 1>>, <<1, 2>>, <<2, 1>>,
                          <<3, 1>>, <<1, 0>>, <<0, 0>>}]

InitNormalise ==
    /\ \E policy \in RawPolicies :
          chat = [NoChat EXCEPT !.pc = "raw", !.policy = policy]
    /\ config = [Repository |-> FALSE, Dispatcher |-> FALSE, Logger |-> FALSE,
                 Interval |-> 0, MaxRetries |-> 0, SuccessStatus |-> "",
                 FailureStatus |-> "", Clock |-> "nil"]
    /\ worker = NoWorker
    /\ newErr = NoError
    /\ clock = 1
    /\ ctxErr = FALSE
    /\ pc = "no worker"
    /\ now = 0
    /\ pendingJobs = << >>
    /\ idx = 1
    /\ exec = NoExec
    /\ trace = << >>
    /\ log = << >>
    /\ run = "off"
    /\ tick = FALSE
    /\ runPrev = "none"
    /\ store = NoStore
    /\ unsaved = NoUnsaved
    /\ peer = IdlePeer
    /\ ledger = NoLedger

NextNormalise ==
    \/ WithRetryPolicy
    \/ WithRetryPolicyAgain

SpecNormalise == InitNormalise /\ [][NextNormalise]_vars

NextChat ==
    \/ ChatEnter
    \/ ChatClientReturn
    \/ ChatSleepReturn
    \/ Cancel

SpecChat == InitChat /\ [][NextChat]_vars

\* the base client and the sleep function return
FairChat ==
    /\ WF_vars(ChatEnter)
    /\ WF_vars(ChatClientReturn)
    /\ WF_vars(ChatSleepReturn)

SpecChatFair == SpecChat /\ FairChat

\* SpecNewWorker: NewWorker called with every Config, the refused ones too
AllConfigs ==
    [Repository : BOOLEAN, Dispatcher : BOOLEAN, Logger : BOOLEAN,
     Interval : {-1, 0, 1}, MaxRetries : {-1, 0, 5},
     SuccessStatus : {"", "sent", "failed"},
     FailureStatus : {"", "sent", "failed"},
     Clock : {"nil", "fixedClock"}]

InitNewWorker ==
    /\ config \in AllConfigs
    /\ worker = NoWorker
    /\ newErr = NoError
    /\ clock \in ClockTimes
    /\ ctxErr = FALSE
    /\ pc = "new"
    /\ now = 0
    /\ pendingJobs = << >>
    /\ idx = 1
    /\ exec = NoExec
    /\ trace = << >>
    /\ log = << >>
    /\ run = "off"
    /\ tick = FALSE
    /\ runPrev = "none"
    /\ store = NoStore
    /\ unsaved = NoUnsaved
    /\ peer = IdlePeer
    /\ chat = NoChat
    /\ ledger = NoLedger

NextNewWorker == Construct

SpecNewWorker == InitNewWorker /\ [][NextNewWorker]_vars

\* SpecBuilt: NewWorker called with every Config, and the cycles of the
\* Workers it returns
NextBuilt ==
    \/ Construct
    \/ RunCycleEnter
    \/ PendingJobsFail
    \/ PendingJobsReturnRun
    \/ LoopDone
    \/ LoopCancelled
    \/ LoopSkip
    \/ LoopExecute
    \/ AttemptReturn
    \/ ApplyAttemptResultReturn
    \/ Cancel
    \/ ClockAdvance

SpecBuilt == InitNewWorker /\ [][NextBuilt]_vars

----------------------------------------------------------------------------
(* Reading the history of a cycle                                          *)

Min(a, b) == IF a < b THEN a ELSE b

\* the events of the current cycle with this operation at this list position
EventsAt(op, p) == {k \in 1..Len(trace) : trace[k].op = op /\ trace[k].pos = p}
Called(op, p) == EventsAt(op, p) # {}

\* the range loop has reached position p and decided on its job
Considered(p) ==
    \/ p < idx
    \/ p = idx /\ pc \in {"Attempt", "ApplyAttemptResult"}

\* the last cycle ran its loop to the end of the list
CycleCompleted == pc = "idle" /\ trace # << >> /\ idx > Len(pendingJobs)

\* ScheduledFor is set and strictly after n
FutureScheduled(job, n) == job.ScheduledFor # Nil /\ job.ScheduledFor[1] > n

\* n >= LastAttemptedAt + Interval * 2^min(RetryCount, 20), over the integers
BackoffElapsed(w, job, n) ==
    n >= job.LastAttemptedAt
         + w.interval * 2^Min(job.RetryCount, maxBackoffShift)

\* Interval * 2^min(RetryCount, 20) is within the range of an int64 Duration
BackoffFits(w, job) ==
    w.interval * 2^Min(job.RetryCount, maxBackoffShift) < Int64Half

----------------------------------------------------------------------------
(* C1: a job that is not future-scheduled, with RetryCount >= 1 and a      *)
(* non-zero LastAttemptedAt, is dispatched by the cycle that reaches it if *)
(* and only if now >= LastAttemptedAt + Interval * 2^min(RetryCount, 20).  *)
(* The code computes the product in an int64 Duration, which wraps around. *)
C1_BackoffDecidesDispatch ==
    \A p \in 1..Len(pendingJobs) :
        LET job == pendingJobs[p]
        IN  (/\ Considered(p)
             /\ ~FutureScheduled(job, now)
             /\ job.RetryCount >= 1
             /\ job.LastAttemptedAt # 0)
            => (Called("Attempt", p) <=> BackoffElapsed(worker, job, now))

\* What the code does keep of C1: the same statement for the jobs whose
\* backoff fits an int64 Duration.
BackoffDecidesDispatchWhenItFits ==
    \A p \in 1..Len(pendingJobs) :
        LET job == pendingJobs[p]
        IN  (/\ Considered(p)
             /\ ~FutureScheduled(job, now)
             /\ job.RetryCount >= 1
             /\ job.LastAttemptedAt # 0
             /\ BackoffFits(worker, job))
            => (Called("Attempt", p) <=> BackoffElapsed(worker, job, now))

(* C2: a job whose ScheduledFor is set and strictly after the cycle's now  *)
(* gets no Dispatcher.Attempt call and no ApplyAttemptResult call in that  *)
(* cycle, whatever its RetryCount and LastAttemptedAt.                     *)
C2_FutureJobNeverCalled ==
    \A p \in 1..Len(pendingJobs) :
        FutureScheduled(pendingJobs[p], now)
        => ~Called("Attempt", p) /\ ~Called("ApplyAttemptResult", p)

\* a completed cycle passed over a job that nothing but its ScheduledFor,
\* one unit after now, kept from being dispatched (RetryCount 0, never attempted)
C2_Witness ==
    /\ CycleCompleted
    /\ \E p \in 1..Len(pendingJobs) :
          /\ pendingJobs[p].ScheduledFor = Ptr(now + 1)
          /\ pendingJobs[p].RetryCount = 0
          /\ pendingJobs[p].LastAttemptedAt = 0

(* C3: a job whose ScheduledFor is absent or not after now, and whose      *)
(* RetryCount is 0 or whose LastAttemptedAt is unset, is eligible: the     *)
(* cycle that reaches it dispatches it, whatever the Interval and the      *)
(* other of the two fields.                                                *)
C3_FirstAttemptEligible ==
    \A p \in 1..Len(pendingJobs) :
        LET job == pendingJobs[p]
        IN  (/\ Considered(p)
             /\ ~FutureScheduled(job, now)
             /\ (job.RetryCount = 0 \/ job.LastAttemptedAt = 0))
            => Called("Attempt", p)

\* dispatched at once: a job with RetryCount 0 whose LastAttemptedAt is set
\* and lies in the cycle's future, under an interval above 1
C3_Witness ==
    \E p \in 1..Len(pendingJobs) :
        /\ Called("Attempt", p)
        /\ pendingJobs[p].RetryCount = 0
        /\ pendingJobs[p].LastAttemptedAt > now
        /\ pendingJobs[p].ScheduledFor = Ptr(now)
        /\ worker.interval > 1

----------------------------------------------------------------------------
\* how often the current cycle made this call for list position p
Calls(op, p) == Cardinality(EventsAt(op, p))
\* the events of the current cycle with this operation
EventsOf(op) == {k \in 1..Len(trace) : trace[k].op = op}

(* C4: the Status handed to ApplyAttemptResult is the dispatcher's status  *)
(* when that is non-empty (with or without an error), otherwise            *)
(* FailureStatus when the dispatch returned an error, otherwise            *)
(* SuccessStatus.                                                          *)
C4_StatusPrecedence ==
    pc = "ApplyAttemptResult"
    => exec.update.Status =
          (IF exec.result.Status # "" THEN exec.result.Status
           ELSE IF exec.dispatchErr # "" THEN worker.failureStatus
           ELSE worker.successStatus)

\* the dispatcher returned a status together with an error, and the status
\* is what is being persisted
C4_Witness ==
    /\ pc = "ApplyAttemptResult"
    /\ exec.result.Status = "queued"
    /\ exec.dispatchErr # ""
    /\ exec.update.Status = "queued"
    /\ worker.failureStatus = "failed"

(* C5: the AttemptUpdate handed to ApplyAttemptResult has the RetryCount   *)
(* of the job passed in the same call plus exactly 1, after a successful   *)
(* and after a failed dispatch.                                            *)
C5_RetryCountPlusOne ==
    pc = "ApplyAttemptResult"
    => /\ trace[Len(trace)].op = "ApplyAttemptResult"
       /\ exec.update.RetryCount = trace[Len(trace)].job.RetryCount + 1

\* a job attempted once before is dispatched with success: 2 is persisted
C5_Witness ==
    /\ pc = "ApplyAttemptResult"
    /\ exec.dispatchErr = ""
    /\ trace[Len(trace)].job.RetryCount = 1
    /\ exec.update.RetryCount = 2

(* C6: in a cycle every list entry the eligibility check accepts gets      *)
(* exactly one Dispatcher.Attempt call and then exactly one                *)
(* ApplyAttemptResult call with the same job, whether the dispatch failed  *)
(* or not; ApplyAttemptResult is only ever called right after the Attempt  *)
(* of the same entry has returned.                                         *)
C6_DispatchThenApplyOnce ==
    /\ \A p \in 1..Len(pendingJobs) :
          /\ Calls("Attempt", p) <= 1
          /\ Calls("ApplyAttemptResult", p) <= 1
          /\ (p < idx /\ shouldAttempt(worker, pendingJobs[p], now))
             => Calls("Attempt", p) = 1 /\ Calls("ApplyAttemptResult", p) = 1
    /\ \A k \in EventsOf("ApplyAttemptResult") :
          /\ k > 2
          /\ trace[k - 1].op = "AttemptReturn" /\ trace[k - 1].pos = trace[k].pos
          /\ trace[k - 2].op = "Attempt" /\ trace[k - 2].pos = trace[k].pos
          /\ trace[k].job = trace[k - 2].job

\* a dispatch that returned an error was followed by its ApplyAttemptResult
C6_Witness ==
    \E k \in EventsOf("AttemptReturn") :
        /\ trace[k].failed
        /\ Calls("Attempt", trace[k].pos) = 1
        /\ Calls("ApplyAttemptResultReturn", trace[k].pos) = 1

(* C7: the jobs dispatched in a cycle are entries of the list PendingJobs  *)
(* returned, taken in the list's order, and one after another: the         *)
(* ApplyAttemptResult of an entry has returned before Attempt is called    *)
(* for a later one.                                                        *)
C7_ListOrderOneAtATime ==
    /\ \A k \in EventsOf("Attempt") :
          /\ trace[k].pos \in 1..Len(pendingJobs)
          /\ trace[k].job = pendingJobs[trace[k].pos]
    /\ \A k, l \in EventsOf("Attempt") :
          k < l => /\ trace[k].pos < trace[l].pos
                   /\ \E m \in (k + 1)..(l - 1) :
                         /\ trace[m].op = "ApplyAttemptResultReturn"
                         /\ trace[m].pos = trace[k].pos

\* both entries of a list of two different jobs were dispatched
C7_Witness ==
    /\ Len(pendingJobs) = 2
    /\ pendingJobs[1].ID = "job-b" /\ pendingJobs[2].ID = "job-a"
    /\ Called("Attempt", 1) /\ Called("Attempt", 2)

(* C8 as stated: in one cycle Dispatcher.Attempt and ApplyAttemptResult    *)
(* are each called at most once per job ID, whatever list PendingJobs      *)
(* returns.  The Worker handles every entry of the list and does not look  *)
(* for an ID that comes twice.                                             *)
C8_OncePerJobID ==
    \A id \in JobIDs :
        /\ Cardinality({k \in EventsOf("Attempt") : trace[k].job.ID = id}) <= 1
        /\ Cardinality({k \in EventsOf("ApplyAttemptResult") : trace[k].job.ID = id}) <= 1

(* C8 amended: at most once per entry of the list, so per job ID at most   *)
(* as often as the list holds the ID (at most once when no ID comes twice).*)
C8_OncePerListEntry ==
    /\ \A p \in 1..Len(pendingJobs) :
          Calls("Attempt", p) <= 1 /\ Calls("ApplyAttemptResult", p) <= 1
    /\ \A id \in JobIDs :
          LET entries == {p \in 1..Len(pendingJobs) : pendingJobs[p].ID = id}
          IN  /\ Cardinality({k \in EventsOf("Attempt") : trace[k].job.ID = id})
                    <= Cardinality(entries)
              /\ Cardinality({k \in EventsOf("ApplyAttemptResult") :
                                 trace[k].job.ID = id})
                    <= Cardinality(entries)

\* a list holding one ID twice: both entries dispatched and persisted
C8_Witness ==
    /\ CycleCompleted
    /\ Len(pendingJobs) = 2
    /\ pendingJobs[1].ID = pendingJobs[2].ID
    /\ Called("ApplyAttemptResultReturn", 1)
    /\ Called("ApplyAttemptResultReturn", 2)

(* C9: a cycle that is not cancelled at its start calls PendingJobs        *)
(* exactly once; when that call returns an error the cycle is over, with   *)
(* no Attempt, no ApplyAttemptResult and no second PendingJobs call.       *)
C9_FetchErrorEndsCycle ==
    /\ pc # "idle" => trace # << >>
    /\ trace # << >> => trace[1].op = "PendingJobs" /\ EventsOf("PendingJobs") = {1}
    /\ (\E k \in EventsOf("PendingJobsReturn") : trace[k].failed)
       => /\ pc = "idle"
          /\ Len(trace) = 2
          /\ pendingJobs = << >>

\* the cycle that ended on a fetch error
C9_Witness ==
    /\ pc = "idle"
    /\ Len(trace) = 2
    /\ trace[2].op = "PendingJobsReturn" /\ trace[2].failed
    /\ log = <<LogEvent("scheduler_pending_jobs_error", "")>>

(* C10: after ApplyAttemptResult returned an error for an entry the call   *)
(* is not repeated and the cycle goes on: unless the context is cancelled, *)
(* the cycle ends only at the end of the list, and every later entry the   *)
(* eligibility check accepts is dispatched and persisted.                  *)
C10_ApplyErrorContinues ==
    \A k \in EventsOf("ApplyAttemptResultReturn") :
        trace[k].failed
        => LET p == trace[k].pos
           IN  /\ Calls("ApplyAttemptResult", p) = 1
               /\ idx > p
               /\ (pc = "idle" /\ ~ctxErr)
                  => /\ idx = Len(pendingJobs) + 1
                     /\ \A q \in (p + 1)..Len(pendingJobs) :
                           shouldAttempt(worker, pendingJobs[q], now)
                           => /\ Called("Attempt", q)
                              /\ Called("ApplyAttemptResultReturn", q)

\* the first entry's update failed to persist, the second entry was
\* dispatched and persisted in the same cycle
C10_Witness ==
    /\ CycleCompleted
    /\ ~ctxErr
    /\ Len(pendingJobs) = 2
    /\ \E k \in EventsOf("ApplyAttemptResultReturn") :
          trace[k].pos = 1 /\ trace[k].failed
    /\ Called("ApplyAttemptResultReturn", 2)

----------------------------------------------------------------------------
(* Cancellation within a cycle                                             *)

\* the positions a step adds to the history
NewEvents == {k \in 1..Len(trace') : k > Len(trace)}

\* C11: a cycle that starts under a cancelled context, from RunOnce or from
\* a tick of Run, returns without a call of PendingJobs, Attempt or
\* ApplyAttemptResult.
C11_CancelledCycleDoesNothing ==
    [][(ctxErr /\ pc = "idle") => (pc' = "idle" /\ NewEvents = {})]_vars

\* Run took a tick under a cancelled context and the cycle made no call
C11_Witness ==
    /\ ctxErr
    /\ run = "running"
    /\ runPrev = "skipped"
    /\ pc = "idle"
    /\ trace = << >>

\* C12: once the context is cancelled no new Dispatcher.Attempt and no new
\* Repository.ApplyAttemptResult call is initiated, whatever call is in
\* progress when the cancellation fires.
C12_NoNewCallAfterCancel ==
    [][ctxErr => \A k \in NewEvents :
                    trace'[k].op \notin {"Attempt", "ApplyAttemptResult"}]_vars

\* C12 as the code has it: once the context is cancelled no new
\* Dispatcher.Attempt is initiated; the one ApplyAttemptResult call still
\* initiated is that of the job whose Attempt was in progress.
C12_NoNewJobAfterCancel ==
    [][ctxErr => \A k \in NewEvents :
                    /\ trace'[k].op # "Attempt"
                    /\ trace'[k].op = "ApplyAttemptResult" =>
                          /\ pc = "Attempt"
                          /\ trace'[k].pos = idx
                          /\ Called("Attempt", idx)]_vars

\* the cancellation fired while the first of two jobs was with the
\* Dispatcher
C12_Witness ==
    /\ ctxErr
    /\ pc = "Attempt"
    /\ idx = 1
    /\ Len(pendingJobs) = 2

----------------------------------------------------------------------------
(* The end of Run, and what does not end it                                *)

\* C13: Run returns only under a cancelled context; once the context is
\* cancelled Run returns, given that the calls in progress return; after its
\* return no call is made; a tick taken under a cancelled context runs a
\* cycle that makes no call.
C13_RunReturnsOnCancel ==
    /\ [](run = "returned" => ctxErr)
    /\ [](runPrev = "skipped" => trace = << >>)
    /\ [][run = "returned" => (trace' = trace /\ run' = "returned")]_vars
    /\ (run = "running" /\ ctxErr) ~> (run = "returned")

\* Run returned after a tick that raced with the cancellation
C13_Witness ==
    /\ run = "returned"
    /\ ctxErr
    /\ runPrev = "skipped"
    /\ log # << >>
    /\ log[Len(log)].msg = "scheduler_worker_stopped"

\* C16: after a cycle in which a fetch, a dispatch or a persistence call
\* failed, Run starts a cycle on a later tick unless the context is cancelled.
C16_ErrorsDoNotStopRun ==
    (run = "running" /\ pc = "idle" /\ trace # << >> /\ CycleOutcome = "failed")
        ~> (ctxErr \/ (run = "running" /\ pc = "PendingJobs" /\ runPrev = "failed"))

\* Run is in the cycle that follows one with a failed call
C16_Witness ==
    /\ run = "running"
    /\ ~ctxErr
    /\ pc = "PendingJobs"
    /\ runPrev = "failed"

----------------------------------------------------------------------------
(* A failed attempt's update                                               *)

\* C17: an Attempt that returns an error and a non-empty DispatchResult is
\* persisted with the result's ProviderMessageID and with the configured
\* FailureStatus, for every non-empty DispatchResult.
C17_FailureStatusOnError ==
    (pc = "ApplyAttemptResult" /\ exec.dispatchErr # ""
                              /\ exec.result # ZeroResult) =>
        /\ exec.update.ProviderMessageID = exec.result.ProviderMessageID
        /\ exec.update.Status = worker.failureStatus

\* C17 as the code has it: the ProviderMessageID is the result's, and the
\* Status is the result's when it has one and the FailureStatus otherwise.
C17_ProviderKeptStatusResolved ==
    (pc = "ApplyAttemptResult" /\ exec.dispatchErr # ""
                              /\ exec.result # ZeroResult) =>
        /\ exec.update.ProviderMessageID = exec.result.ProviderMessageID
        /\ exec.update.Status = IF exec.result.Status # ""
                                 THEN exec.result.Status
                                 ELSE worker.failureStatus
        /\ trace[Len(trace)].op = "ApplyAttemptResult"

\* a failed attempt that came with a provider message ID and a status
C17_Witness ==
    /\ pc = "ApplyAttemptResult"
    /\ exec.dispatchErr # ""
    /\ exec.result = [Status |-> "queued", ProviderMessageID |-> "provider-1"]
    /\ exec.update.ProviderMessageID = "provider-1"
    /\ exec.update.Status = "queued"

----------------------------------------------------------------------------
(* The backoff as a function of RetryCount                                 *)

\* the job with another RetryCount
WithRetryCount(job, r) == [job EXCEPT !.RetryCount = r]

\* C18: for retry counts 1 <= r < r' <= 20 the backoff of r is shorter than
\* the backoff of r', so a job dispatched with r' retries would be dispatched
\* with r retries as well.
C18_BackoffMonotone ==
    \A p \in 1..Len(pendingJobs) :
        LET job == pendingJobs[p]
        IN  (Considered(p) /\ job.RetryCount \in 2..maxBackoffShift
                           /\ ~IsZero(job.LastAttemptedAt)) =>
                \A r \in 1..(job.RetryCount - 1) :
                    /\ Backoff(worker, WithRetryCount(job, r)) < Backoff(worker, job)
                    /\ Called("Attempt", p) =>
                          shouldAttempt(worker, WithRetryCount(job, r), now)

\* C19: a job with more than 20 retries is dispatched exactly when the same
\* job with 20 retries would be.
C19_CapAtTwenty ==
    \A p \in 1..Len(pendingJobs) :
        LET job == pendingJobs[p]
        IN  (Considered(p) /\ job.RetryCount >= maxBackoffShift) =>
                /\ Called("Attempt", p) <=>
                      shouldAttempt(worker, WithRetryCount(job, maxBackoffShift), now)
                /\ Backoff(worker, job) =
                      Backoff(worker, WithRetryCount(job, maxBackoffShift))

\* a job with 21 retries held back one instant before Interval * 2^20 has
\* passed since its last attempt
C19_Witness ==
    /\ CycleCompleted
    /\ Len(pendingJobs) = 1
    /\ pendingJobs[1].RetryCount = maxBackoffShift + 1
    /\ pendingJobs[1].ScheduledFor = Nil
    /\ pendingJobs[1].LastAttemptedAt = 1
    /\ worker.interval = 1
    /\ now = 2^maxBackoffShift
    /\ ~Called("Attempt", 1)

\* C20: for every Interval NewWorker accepts and every RetryCount >= 1 the
\* backoff, a signed 64-bit count, is positive and is the exact product
\* Interval * 2^min(RetryCount, 20).
C20_BackoffExact ==
    \A p \in 1..Len(pendingJobs) :
        LET job == pendingJobs[p]
        IN  (Considered(p) /\ job.RetryCount >= 1
                           /\ ~IsZero(job.LastAttemptedAt)) =>
                /\ Backoff(worker, job) > 0
                /\ Backoff(worker, job) =
                      worker.interval * 2^Min(job.RetryCount, maxBackoffShift)

----------------------------------------------------------------------------
(* The time and the job of an attempt                                      *)

\* C21: the update handed to ApplyAttemptResult carries as LastAttemptedAt
\* the time fixed before Dispatcher.Attempt was called, the cycle's now, and
\* not a time read later, also when the clock advances during the dispatch.
C21_AttemptedAtFixedBeforeDispatch ==
    /\ pc = "Attempt" => exec.attemptedAt = UTC(now)
    /\ pc = "ApplyAttemptResult" =>
          /\ exec.attemptedAt = UTC(now)
          /\ exec.update.LastAttemptedAt = exec.attemptedAt

\* an update on its way to the Repository after the clock has moved on
C21_Witness ==
    /\ pc = "ApplyAttemptResult"
    /\ clock > now
    /\ exec.update.LastAttemptedAt = now

\* C22: a cycle reads the clock once, at its top: now does not change while
\* the cycle runs, and every job of the list is judged against it, whatever
\* the clock shows by then.
C22_OneNowPerCycle ==
    /\ [][pc # "idle" => now' = now]_vars
    /\ [](pc # "idle" => now <= clock)
    /\ [](\A p \in 1..Len(pendingJobs) :
            Considered(p) =>
                (Called("Attempt", p) <=> shouldAttempt(worker, pendingJobs[p], now)))

\* two jobs scheduled for a time the clock reached during the cycle: both
\* were held back, as now is still before that time
C22_Witness ==
    /\ CycleCompleted
    /\ Len(pendingJobs) = 2
    /\ \A p \in 1..2 :
          /\ pendingJobs[p].ScheduledFor = Ptr(MaxTime)
          /\ ~Called("Attempt", p)
    /\ now < MaxTime
    /\ clock = MaxTime

\* C23: the job handed to Dispatcher.Attempt and to ApplyAttemptResult is
\* the entry of the list PendingJobs returned, field for field; the list is
\* not changed during the cycle; a job the eligibility check refuses gets no
\* call at all.
C23_JobSnapshotUntouched ==
    /\ [][pc \notin {"idle", "PendingJobs"} => pendingJobs' = pendingJobs]_vars
    /\ [](\A k \in 1..Len(trace) :
            trace[k].op \in {"Attempt", "ApplyAttemptResult"} =>
                /\ trace[k].pos \in 1..Len(pendingJobs)
                /\ trace[k].job = pendingJobs[trace[k].pos])
    /\ [](\A p \in 1..Len(pendingJobs) :
            (Considered(p) /\ ~shouldAttempt(worker, pendingJobs[p], now)) =>
                \A k \in 1..Len(trace) : trace[k].pos # p)

\* a cycle that refused its first job and dispatched and persisted its second
C23_Witness ==
    /\ CycleCompleted
    /\ Len(pendingJobs) = 2
    /\ ~shouldAttempt(worker, pendingJobs[1], now)
    /\ ~Called("Attempt", 1)
    /\ shouldAttempt(worker, pendingJobs[2], now)
    /\ Called("ApplyAttemptResultReturn", 2)

----------------------------------------------------------------------------
(* At-least-once dispatch                                                  *)

\* the step is the failed return of an ApplyAttemptResult call
ApplyFailedStep ==
    /\ Len(trace') = Len(trace) + 1
    /\ trace'[Len(trace')].op = "ApplyAttemptResultReturn"
    /\ trace'[Len(trace')].failed

\* the instant from which the job of the lost update would be eligible again
\* had the update been stored
LostWindowEnd ==
    Add(UTC(unsaved.update.LastAttemptedAt),
        Backoff(worker, WithRetryCount(unsaved.job, unsaved.update.RetryCount)))

\* C24: a failed ApplyAttemptResult is not called again and leaves the
\* Repository with the old RetryCount and LastAttemptedAt, and a later cycle
\* judges the job by these stored fields alone: it is dispatched again with
\* an unchanged RetryCount, also before the backoff counted from the lost
\* attempt has elapsed.
C24_LostUpdateRedispatch ==
    /\ [][ApplyFailedStep => /\ store' = store
                             /\ unsaved'.job = exec.job
                             /\ pc' = "loop"
                             /\ idx' = idx + 1]_vars
    /\ [](\A p \in 1..Len(pendingJobs) :
            (Considered(p) /\ pendingJobs[p] = unsaved.job) =>
                (Called("Attempt", p) <=> shouldAttempt(worker, unsaved.job, now)))

\* the job is with the Dispatcher again, with the RetryCount of the attempt
\* whose update was lost, before that attempt's backoff has elapsed
C24_Witness ==
    /\ pc = "Attempt"
    /\ unsaved # NoUnsaved
    /\ store[1] = unsaved.job
    /\ exec.job = unsaved.job
    /\ peer = IdlePeer
    /\ Before(now, LostWindowEnd)

\* C25: two Workers that execute the same job snapshot at the same time are
\* both let through, and both hand the Repository an update with the same
\* RetryCount, the snapshot's plus one.
C25_BothWorkersSameRetryCount ==
    (/\ pc \in {"Attempt", "ApplyAttemptResult"}
     /\ peer.pc \in {"Attempt", "ApplyAttemptResult"}
     /\ exec.job = peer.exec.job) =>
        /\ shouldAttempt(worker, exec.job, now)
        /\ shouldAttempt(worker, peer.exec.job, peer.now)
        /\ (pc = "ApplyAttemptResult" /\ peer.pc = "ApplyAttemptResult") =>
              /\ exec.update.RetryCount = exec.job.RetryCount + 1
              /\ peer.exec.update.RetryCount = exec.update.RetryCount

\* both Workers have dispatched the stored job and are persisting an update
\* with the same RetryCount
C25_Witness ==
    /\ pc = "ApplyAttemptResult"
    /\ peer.pc = "ApplyAttemptResult"
    /\ exec.job = store[1]
    /\ peer.exec.job = store[1]
    /\ Called("Attempt", 1)
    /\ exec.update.RetryCount = peer.exec.update.RetryCount

----------------------------------------------------------------------------
(* llm: the retries of Factory.Chat                                        *)

\* Chat has returned
ChatDone == chat.pc = "done"
\* the attempts the policy allows: max(1, MaxAttempts)
AllowedAttempts == IF chat.policy.MaxAttempts > 1 THEN chat.policy.MaxAttempts ELSE 1
\* the step is a return of the base client, and what it returned
ClientReturnStep == chat.pc = "call" /\ chat' # chat
ReturnedBlank(c) == c.last.err = "" /\ TrimSpace(c.last.response) = << >>
ReturnedFailure(c) == c.last.err # "" \/ ReturnedBlank(c)
\* the base client has returned, and its last return was a blank success
LastBlank ==
    /\ chat.calls >= 2 \/ chat.pc \in {"sleep", "done"}
    /\ chat.calls >= 1
    /\ ReturnedBlank(chat)

\* C26: Chat calls the base client at most max(1, MaxAttempts) times; the
\* first response that is not blank ends it, returned trimmed, with no call
\* after it; when the last allowed call fails the error names the attempt
\* count and wraps the last error; and Chat returns whenever the base client
\* and the sleep function return.
C26_BoundedAttempts ==
    /\ [](chat.calls <= AllowedAttempts)
    /\ [][ChatDone => chat' = chat]_vars
    /\ [][(ClientReturnStep /\ ~ReturnedFailure(chat')) =>
            /\ chat'.pc = "done"
            /\ chat'.calls = chat.calls
            /\ chat'.ret.err = ""
            /\ chat'.ret.text = TrimSpace(chat'.last.response)]_vars
    /\ []((ChatDone /\ chat.ret.err = "") => ~ReturnedFailure(chat))
    /\ []((ChatDone /\ chat.ret.err # "" /\ chat.calls = AllowedAttempts) =>
            /\ chat.ret.err = "llm chat failed after attempts"
            /\ chat.ret.attempts = AllowedAttempts
            /\ chat.lastError # ""
            /\ chat.ret.wraps = chat.lastError)
    /\ (chat.pc = "start") ~> ChatDone

\* the second of three allowed calls answered, and Chat returned the answer
\* trimmed
C26_Witness ==
    /\ ChatDone
    /\ chat.policy.MaxAttempts = 3
    /\ chat.calls = 2
    /\ chat.last.response = <<" ", "o", " ", "k", "\n">>
    /\ chat.ret.err = ""
    /\ chat.ret.text = <<"o", " ", "k">>

\* C27: a blank response counts as a failed attempt with ErrEmptyResponse:
\* Chat goes on while attempts remain, the error of the exhausted attempts
\* wraps ErrEmptyResponse, and Chat never returns an empty string without an
\* error.
C27_BlankIsFailure ==
    /\ LastBlank => chat.lastError = ErrEmptyResponse
    /\ (LastBlank /\ ChatDone) =>
          /\ chat.ret.err # ""
          /\ chat.ret.err = "llm chat failed after attempts" =>
                (chat.ret.wraps = ErrEmptyResponse /\ chat.calls = chat.attempts)
          /\ chat.calls < chat.attempts =>
                chat.ret.err \in {"llm chat cancelled", "llm chat retry interrupted"}
    /\ ChatDone => ~(chat.ret.err = "" /\ chat.ret.text = << >>)

\* the base client is called a second time after a response of white space
C27_Witness ==
    /\ chat.pc = "call"
    /\ chat.calls = 2
    /\ chat.last = [response |-> <<"\n", " ">>, err |-> ""]
    /\ chat.lastError = ErrEmptyResponse

\* C28: every duration passed to the sleep function is positive, and at most
\* MaxBackoff when that is positive, the first wait of an InitialBackoff
\* above MaxBackoff included.
C28_SleepWithinMaxBackoff ==
    \A k \in 1..Len(chat.sleeps) :
        /\ chat.sleeps[k] > 0
        /\ chat.policy.MaxBackoff > 0 => chat.sleeps[k] <= chat.policy.MaxBackoff

\* two sleeps under an InitialBackoff above MaxBackoff
C28_Witness ==
    /\ chat.policy.MaxBackoff > 0
    /\ chat.policy.InitialBackoff > chat.policy.MaxBackoff
    /\ chat.policy.BackoffMultiplier = <<2, 1>>
    /\ Len(chat.sleeps) = 2
    /\ chat.sleeps[1] = chat.policy.MaxBackoff

\* C29: when an attempt that is not the last fails under a cancelled context,
\* Chat returns 'llm chat cancelled' wrapping the context's error, without a
\* call of the sleep function or of the base client.
C29_CancelledBetweenAttempts ==
    [][(ClientReturnStep /\ ctxErr /\ ReturnedFailure(chat')
                         /\ chat.attempt < chat.attempts) =>
          /\ chat'.pc = "done"
          /\ chat'.ret.err = "llm chat cancelled"
          /\ chat'.ret.wraps = ContextCanceled
          /\ chat'.sleeps = chat.sleeps
          /\ chat'.calls = chat.calls]_vars

\* the first of three attempts failed under a cancelled context
C29_Witness ==
    /\ ChatDone
    /\ ctxErr
    /\ chat.attempts = 3
    /\ chat.calls = 1
    /\ chat.policy.InitialBackoff > 0
    /\ chat.sleeps = << >>
    /\ chat.ret.err = "llm chat cancelled"
    /\ chat.ret.wraps = ContextCanceled

\* C30: an error of the sleep function ends Chat with 'llm chat retry
\* interrupted' wrapping that error, without another call of the base client,
\* attempts left or not.
C30_SleepErrorStops ==
    /\ [][(chat.pc = "sleep" /\ chat'.sleepErr # "") =>
            /\ chat'.pc = "done"
            /\ chat'.calls = chat.calls
            /\ chat'.ret.err = "llm chat retry interrupted"
            /\ chat'.ret.wraps = chat'.sleepErr]_vars
    /\ [](chat.sleepErr # "" =>
            (ChatDone /\ chat.ret.err = "llm chat retry interrupted"))

\* the sleep after the first of three attempts failed
C30_Witness ==
    /\ ChatDone
    /\ chat.attempts = 3
    /\ chat.calls = 1
    /\ Len(chat.sleeps) = 1
    /\ chat.sleepErr = "sleep failed"
    /\ chat.ret.err = "llm chat retry interrupted"
    /\ chat.ret.wraps = "sleep failed"

----------------------------------------------------------------------------
(* MaxRetries                                                              *)

\* the job is due at n and its backoff, taken over the integers, is over
DueAt(w, job, n) ==
    /\ ~FutureScheduled(job, n)
    /\ job.RetryCount <= 0 \/ job.LastAttemptedAt = 0 \/ BackoffElapsed(w, job, n)

\* C32: MaxRetries is no ceiling inside the Worker: a job PendingJobs returns
\* with RetryCount >= MaxRetries is dispatched exactly when it is due and its
\* backoff is over (for a backoff that fits an int64 Duration: over by the
\* integers), and its update carries RetryCount + 1.
C32_NoRetryCeiling ==
    \A p \in 1..Len(pendingJobs) :
        LET job == pendingJobs[p]
        IN  (Considered(p) /\ job.RetryCount >= worker.maxRetries)
            => /\ Called("Attempt", p) <=> shouldAttempt(worker, job, now)
               /\ BackoffFits(worker, job)
                     => (Called("Attempt", p) <=> DueAt(worker, job, now))
               /\ Called("AttemptReturn", p) => Called("ApplyAttemptResult", p)
               /\ (p = idx /\ pc = "ApplyAttemptResult")
                     => exec.update.RetryCount = job.RetryCount + 1

\* a job at RetryCount 21 under MaxRetries 5 is dispatched once its backoff
\* of 2^20 intervals is over, and the update to store says 22
C32_Witness ==
    /\ pc = "ApplyAttemptResult"
    /\ worker.maxRetries = 5
    /\ exec.job.RetryCount = maxBackoffShift + 1
    /\ exec.job.LastAttemptedAt = 1
    /\ now = 2^maxBackoffShift + 1
    /\ exec.update.RetryCount = maxBackoffShift + 2

\* C35: eligibility is monotone in time: a job snapshot that shouldAttempt
\* passes at t is passed at every later t, under the same Interval; while
\* the snapshot stays as it is and the clock goes on, an eligible job does
\* not become ineligible.
C35_EligibilityMonotone ==
    /\ [](\A p \in 1..Len(pendingJobs) :
            \A t \in WideClockTimes, later \in WideClockTimes :
                (t <= later /\ shouldAttempt(worker, pendingJobs[p], t))
                => shouldAttempt(worker, pendingJobs[p], later))
    /\ [][pendingJobs' = pendingJobs =>
            \A p \in 1..Len(pendingJobs) :
                shouldAttempt(worker, pendingJobs[p], clock)
                => shouldAttempt(worker, pendingJobs[p], clock')]_vars

\* a job in backoff one unit before the cycle's now is dispatched at now,
\* and is still eligible by the clock, which has gone on since
C35_Witness ==
    /\ Called("Attempt", 1)
    /\ pendingJobs[1].RetryCount = 1
    /\ pendingJobs[1].LastAttemptedAt # 0
    /\ ~shouldAttempt(worker, pendingJobs[1], now - 1)
    /\ shouldAttempt(worker, pendingJobs[1], now)
    /\ clock > now
    /\ shouldAttempt(worker, pendingJobs[1], clock)

----------------------------------------------------------------------------
(* The cycles of one Run                                                   *)

\* the step starts a cycle of Run: runCycle makes its first call
RunCycleStartStep ==
    /\ run = "running"
    /\ pc # "PendingJobs"
    /\ pc' = "PendingJobs"

\* C37: in one Run a cycle starts only by taking a tick off the ticker's
\* channel, so never before the first tick and once for the ticks, however
\* many, that fired during the cycle before; and it starts only when the
\* cycle before has returned.
C37_CyclesOnTicksInTurn ==
    /\ [][RunCycleStartStep => (pc = "idle" /\ tick /\ ~tick')]_vars
    /\ [][(run = "off" /\ run' = "running") => (~tick' /\ pc' = "idle")]_vars
    /\ [](run = "running" /\ pc # "idle" => trace # << >>)

\* the ticker has fired while the second cycle of a Run waits for the
\* Dispatcher
C37_Witness ==
    /\ run = "running"
    /\ runPrev # "none"
    /\ pc = "Attempt"
    /\ tick

----------------------------------------------------------------------------
(* The log of an executed job                                              *)

\* the step is executeJob's return, and the events logged in the step
ExecuteJobReturnStep == pc = "ApplyAttemptResult" /\ pc' = "loop"
Logged == SubSeq(log', Len(log) + 1, Len(log'))
LoggedFor(msg, id) == \E k \in 1..Len(Logged) : Logged[k] = LogEvent(msg, id)

\* C38: an executed job logs the success event exactly when Attempt
\* returned no error and the dispatch-error event exactly when it returned
\* one, whatever status came with it; the persistence-error event is logged
\* besides, exactly when ApplyAttemptResult failed; a skipped job logs
\* nothing, and nothing is logged before executeJob's last call returns.
C38_SuccessEventIffNoDispatchError ==
    /\ [][ExecuteJobReturnStep =>
            /\ LoggedFor("scheduler_dispatch_success", exec.job.ID)
                  <=> exec.dispatchErr = ""
            /\ LoggedFor("scheduler_dispatch_error", exec.job.ID)
                  <=> exec.dispatchErr # ""
            /\ LoggedFor("scheduler_apply_attempt_error", exec.job.ID)
                  <=> trace'[Len(trace')].failed
            /\ Len(Logged) = IF trace'[Len(trace')].failed THEN 2 ELSE 1]_vars
    /\ [][(pc = "loop" \/ pc = "Attempt") => log' = log]_vars

\* a dispatch that succeeded and whose update was not stored: both events
C38_Witness ==
    /\ pc = "loop"
    /\ idx = 2
    /\ log = <<LogEvent("scheduler_apply_attempt_error", pendingJobs[1].ID),
               LogEvent("scheduler_dispatch_success", pendingJobs[1].ID)>>

----------------------------------------------------------------------------
(* The status of an update                                                 *)

\* C36: for a Worker that NewWorker returned, every AttemptUpdate handed to
\* ApplyAttemptResult has a Status that is not empty, whatever DispatchResult
\* and error the Dispatcher returned.
C36_StatusNeverEmpty ==
    /\ pc \notin {"new", "no worker"}
          => (worker.successStatus # "" /\ worker.failureStatus # "")
    /\ pc = "ApplyAttemptResult" => exec.update.Status # ""

\* the Dispatcher returned an error and no status; the update carries the
\* Worker's failure status
C36_Witness ==
    /\ pc = "ApplyAttemptResult"
    /\ exec.result.Status = ""
    /\ exec.dispatchErr # ""
    /\ exec.update.Status = config.FailureStatus
    /\ config.FailureStatus = config.SuccessStatus

----------------------------------------------------------------------------
(* One Worker on a Repository that stores every update                     *)

\* C31: on a Repository that lists only the jobs below MaxRetries and stores
\* every update, one Worker calls Dispatcher.Attempt for a job at most
\* MaxRetries less the job's first RetryCount times, over all cycles, and
\* no stored RetryCount is above MaxRetries.
C31_RetryBudget ==
    \A k \in DOMAIN store :
        /\ store[k].RetryCount <= worker.maxRetries
        /\ ledger.attempts[store[k].ID]
              <= worker.maxRetries - ledger.first[k].RetryCount

\* a job first stored with RetryCount 0 has had its two attempts, and the
\* cycle after them is handed an empty list
C31_Witness ==
    /\ worker.maxRetries = 2
    /\ ledger.first[1].RetryCount = 0
    /\ ledger.attempts[store[1].ID] = 2
    /\ store[1].RetryCount = 2
    /\ Len(store) = 1
    /\ pc = "loop"
    /\ pendingJobs = << >>

\* the stored job of this ID
StoredJob(id) == store[CHOOSE k \in DOMAIN store : store[k].ID = id]
\* the step is a call of Dispatcher.Attempt
AttemptCallStep == pc = "loop" /\ pc' = "Attempt"

\* C33: with every update stored and one Worker, a job whose last attempt is
\* recorded with RetryCount r >= 1 and LastAttemptedAt t gets its next
\* Dispatcher.Attempt only in a cycle whose now >= t + Interval * 2^min(r, 20).
\* The code computes the product in an int64 Duration, which wraps around.
C33_BackoffBetweenDispatches ==
    [][AttemptCallStep =>
          LET recorded == StoredJob(exec'.job.ID)
          IN  (recorded.RetryCount >= 1 /\ recorded.LastAttemptedAt # 0)
              => BackoffElapsed(worker, recorded, now)]_vars

\* What the code does keep of C33: the same statement for the jobs whose
\* backoff fits an int64 Duration.
BackoffBetweenDispatchesWhenItFits ==
    [][AttemptCallStep =>
          LET recorded == StoredJob(exec'.job.ID)
          IN  (/\ recorded.RetryCount >= 1
               /\ recorded.LastAttemptedAt # 0
               /\ BackoffFits(worker, recorded))
              => BackoffElapsed(worker, recorded, now)]_vars

\* a second dispatch of a job in one Run, its backoff of two intervals over
SecondDispatchAfterBackoff ==
    /\ pc = "Attempt"
    /\ ledger.attempts[exec.job.ID] = 2
    /\ exec.job.RetryCount = 1
    /\ now = exec.job.LastAttemptedAt + 2

\* the first instant at which the stored job is due and its backoff, taken
\* over the integers, is over
DueFrom(w, job) ==
    LET waited == IF job.RetryCount <= 0 \/ job.LastAttemptedAt = 0 THEN 0
                  ELSE job.LastAttemptedAt
                       + w.interval * 2^Min(job.RetryCount, maxBackoffShift)
        due == IF job.ScheduledFor = Nil THEN 0 ELSE job.ScheduledFor[1]
    IN  IF waited > due THEN waited ELSE due

\* the k-th stored job has an attempt recorded, c Attempt calls so far and
\* none under way, the Repository still lists it, and the clock can reach
\* the instant from which it is due
AwaitsRetry(k, c) ==
    /\ k \in DOMAIN store
    /\ store[k].RetryCount >= 1
    /\ store[k].LastAttemptedAt # 0
    /\ store[k].RetryCount < worker.maxRetries
    /\ ledger.attempts[store[k].ID] = c
    /\ ~(pc \in {"Attempt", "ApplyAttemptResult"} /\ exec.job.ID = store[k].ID)
    /\ DueFrom(worker, store[k]) <= MaxTime

\* the k-th stored job has had more than c Attempt calls
DispatchedBeyond(k, c) == k \in DOMAIN store /\ ledger.attempts[store[k].ID] > c

\* the step passes over the job at the loop's position
SkipStep == pc = "loop" /\ pc' = "loop" /\ idx' = idx + 1

\* C34: a recorded attempt does not strand a job: while the Repository goes
\* on listing it, the clock and the ticks go on, every call returns and the
\* context is not cancelled, the job is dispatched again; and no cycle whose
\* now has reached LastAttemptedAt + backoff and ScheduledFor passes it over.
C34_RetriedAfterBackoff ==
    /\ \A c \in 0..MaxStoredRetries :
          AwaitsRetry(1, c) ~> (ctxErr \/ DispatchedBeyond(1, c))
    /\ [][SkipStep => ~DueAt(worker, pendingJobs[idx], now)]_vars

\* the job's first attempt in this Run failed and is recorded; its second
\* attempt is under way, two intervals later
C34_Witness ==
    /\ pc = "Attempt"
    /\ ~ctxErr
    /\ ledger.first[1].RetryCount = 0
    /\ ledger.attempts[exec.job.ID] = 2
    /\ exec.job = store[1]
    /\ exec.job.RetryCount = 1
    /\ now = exec.job.LastAttemptedAt + 2
    /\ run = "running"

----------------------------------------------------------------------------
(* llm: the normalised retry policy                                        *)

\* what C39 says of a result: attempts, backoffs and multiplier in order
Normalised(policy) ==
    /\ policy.MaxAttempts >= 1
    /\ policy.InitialBackoff > 0
    /\ policy.MaxBackoff >= policy.InitialBackoff
    /\ FloatAboveZero(policy.BackoffMultiplier)

\* the fields of the result: the default for a field that was not positive,
\* MaxBackoff raised to InitialBackoff, every other field as it was
DefaultsFilled(given, result) ==
    /\ result.MaxAttempts = IF given.MaxAttempts <= 0 THEN 3 ELSE given.MaxAttempts
    /\ result.InitialBackoff = IF given.InitialBackoff <= 0 THEN 200
                                ELSE given.InitialBackoff
    /\ LET positiveMax == IF given.MaxBackoff <= 0 THEN 2000 ELSE given.MaxBackoff
       IN  result.MaxBackoff = IF positiveMax < result.InitialBackoff
                               THEN result.InitialBackoff ELSE positiveMax
    /\ result.BackoffMultiplier = IF FloatLeqZero(given.BackoffMultiplier)
                                   THEN <<2, 1>> ELSE given.BackoffMultiplier

\* C39: normaliseRetryPolicy returns for every policy one with MaxAttempts
\* >= 1, InitialBackoff > 0, MaxBackoff >= InitialBackoff and
\* BackoffMultiplier > 0, the defaults 3, 200 ms, 2 s and 2.0 in the place of
\* fields that were not positive, and normalising its result changes
\* nothing. A multiplier of NaN is neither above zero nor replaced.
C39_NormalisedAndIdempotent ==
    /\ [](chat.pc \in {"normalised", "normalised twice"} => Normalised(chat.policy))
    /\ [][(chat.pc = "raw" /\ chat'.pc = "normalised")
            => DefaultsFilled(chat.policy, chat'.policy)]_vars
    /\ [][(chat.pc = "normalised" /\ chat'.pc = "normalised twice")
            => chat'.policy = chat.policy]_vars

\* What the code does keep of C39: the same statement for the policies
\* whose multiplier is a number.
NormalisedAndIdempotentForNumbers ==
    /\ []((chat.pc \in {"normalised", "normalised twice"}
              /\ ~IsNaN(chat.policy.BackoffMultiplier))
            => Normalised(chat.policy))
    /\ [][(chat.pc = "raw" /\ chat'.pc = "normalised")
            => DefaultsFilled(chat.policy, chat'.policy)]_vars
    /\ [][(chat.pc = "normalised" /\ chat'.pc = "normalised twice")
            => chat'.policy = chat.policy]_vars

\* the policy of the repository's test, normalised twice
NormalisedTestPolicy ==
    /\ chat.pc = "normalised twice"
    /\ chat.policy = [MaxAttempts |-> 3, InitialBackoff |-> 200,
                      MaxBackoff |-> 200, BackoffMultiplier |-> <<2, 1>>]

----------------------------------------------------------------------------
(* NewWorker's answer                                                      *)

\* the preconditions a Config violates
Violated(cfg) ==
    {cause \in {"collaborators", "interval", "max retries", "statuses"} :
        \/ cause = "collaborators"
              /\ (~cfg.Repository \/ ~cfg.Dispatcher \/ ~cfg.Logger)
        \/ cause = "interval" /\ cfg.Interval <= 0
        \/ cause = "max retries" /\ cfg.MaxRetries <= 0
        \/ cause = "statuses"
              /\ (cfg.SuccessStatus = "" \/ cfg.FailureStatus = "")}

\* C14: NewWorker returns a Worker exactly when Repository, Dispatcher and
\* Logger are non-nil, Interval and MaxRetries are positive and both statuses
\* are non-empty, and otherwise an error and no Worker; the Worker holds the
\* Config's values, equal statuses included.
C14_WorkerIffValid ==
    pc # "new" =>
        /\ (worker # NoWorker) <=> (Violated(config) = {})
        /\ (newErr = NoError) <=> (worker # NoWorker)
        /\ worker # NoWorker =>
              /\ worker.interval = config.Interval
              /\ worker.maxRetries = config.MaxRetries
              /\ worker.successStatus = config.SuccessStatus
              /\ worker.failureStatus = config.FailureStatus

\* a Worker built with the same status for success and failure
C14_Witness ==
    /\ pc = "idle"
    /\ worker # NoWorker
    /\ newErr = NoError
    /\ config.SuccessStatus = config.FailureStatus

\* the Configs that violate one precondition only, and another one than cfg
OtherCause(cfg) ==
    {c \in AllConfigs : Cardinality(Violated(c)) = 1 /\ Violated(c) # Violated(cfg)}

====
